---- MODULE Spec2Model ----
(***************************************************************************)
(* A model of the latency monitor (lm.ui.main_window.TradesApp and the     *)
(* helpers it uses): the snapshot df_all, the dynamic filters, the         *)
(* filtered view df_filtered, the global summaries, the debouncer and the  *)
(* Tk timer queue that drives refresh_data.                                *)
(*                                                                         *)
(* A DataFrame is a record                                                 *)
(*   [columns : sequence of column names, numeric : the columns whose      *)
(*    dtype is numeric, index : the row labels, rows : the rows],          *)
(* a row being a function from column names to cell values.                *)
(***************************************************************************)
EXTENDS Integers, Sequences, FiniteSets, TLC

VARIABLES
    df_all,           \* TradesApp.df_all
    df_filtered,      \* TradesApp.df_filtered
    dynamic_filters,  \* TradesApp.dynamic_filters, in dict (insertion) order
    sort_state_main,  \* TradesApp.sort_state_main
    running,          \* TradesApp.running
    refresh_ms,       \* TradesApp.refresh_ms (what the entry holds)
    summaries,        \* the rows last given to the four summary tables
    views,            \* what the main table and the three charts show
    after_q,          \* Tk's pending `after` timers
    handles,          \* Debouncer._handles
    invoked,          \* the debounced calls Tk has invoked so far (observer)
    calls,            \* the schedule calls made so far (observer)
    last              \* the handler that ran last and how it ended (observer)

vars == <<df_all, df_filtered, dynamic_filters, sort_state_main, running,
          refresh_ms, summaries, views, after_q, handles, invoked, calls, last>>

appVars == <<df_all, df_filtered, dynamic_filters, sort_state_main, running,
             refresh_ms, summaries, views>>

----------------------------------------------------------------------------
(* Bounds of the model. *)

\* Longest snapshot the filter harness enumerates.
MaxRows == 3

\* Most schedule calls the debouncer harness makes.
MaxCalls == 3

----------------------------------------------------------------------------
(* Constants of the program. *)

\* TradesApp._filter_debounce_ms
FilterDebounceMs == 200

\* The refresh_ms lm.app.run constructs the window with.
DefaultRefreshMs == 3500

\* The limits of TradesApp._safe_refresh_ms.
MinRefreshMs == 2000

MaxRefreshMs == 30000

\* The number of rows update_global_summaries keeps of the ISIN summary.
IsinCap == 50

\* What _safe_refresh_ms takes refresh_ms for when it cannot be read.
FallbackRefreshMs == 5000

\* A Tk IntVar: get() returns the integer it holds, and raises when the
\* entry bound to it holds a text that is no number.
IntVarHolding(n) == [ok |-> TRUE, value |-> n]

IntVarUnreadable == [ok |-> FALSE, value |-> 0]

----------------------------------------------------------------------------
(* Generic helpers. *)

Range(s) == {s[i] : i \in 1..Len(s)}

RECURSIVE SeqsUpTo(_, _)
SeqsUpTo(S, n) ==
    IF n = 0 THEN {<<>>}
    ELSE LET shorter == SeqsUpTo(S, n - 1)
         IN shorter \cup {Append(s, x) : s \in {t \in shorter : Len(t) = n - 1}, x \in S}

RECURSIVE Pow10(_)
Pow10(n) == IF n = 0 THEN 1 ELSE 10 * Pow10(n - 1)

\* s is obtained from t by deleting elements (order and multiplicity kept).
RECURSIVE IsSubseq(_, _)
IsSubseq(s, t) ==
    IF s = <<>> THEN TRUE
    ELSE IF t = <<>> THEN FALSE
    ELSE IF Head(s) = Head(t) THEN IsSubseq(Tail(s), Tail(t))
    ELSE IsSubseq(s, Tail(t))

----------------------------------------------------------------------------
(* Cell values.  Text cells are strings, numeric cells integers; a missing *)
(* text cell (None) is the value NA.                                       *)

NA == "<NA>"

\* str(v) as Series.astype(str) gives it for a text cell: None becomes "None".
StrOf(v) == IF v = NA THEN "None" ELSE v

\* The ISIN of the i-th instrument of a long snapshot: DE1001, DE1002, ...
IsinCode(i) == "DE" \o ToString(1000 + i)

\* Code-point order of the strings the model uses, as sorted() orders them.
StrOrder == <<"(All)", "A", "B", "C", "DE0001", "DE0002", "DE0003">>
            \o [i \in 1..(IsinCap + 2) |-> IsinCode(i)]
            \o <<"H", "J", "K", "MSFT", "NVDA", "None", "TSLA", "buy", "nvda", "sell", "tsla">>

StrRank(s) == CHOOSE i \in 1..Len(StrOrder) : StrOrder[i] = s

\* sorted(S) for a set of strings.
RECURSIVE SortedStrs(_)
SortedStrs(S) ==
    IF S = {} THEN <<>>
    ELSE LET m == CHOOSE x \in S : \A y \in S : StrRank(x) <= StrRank(y)
         IN <<m>> \o SortedStrs(S \ {m})

----------------------------------------------------------------------------
(* DataFrames. *)

\* The columns the simulator returns, in its order.
AllCols == <<"Time", "nombre", "Exchange", "counterparty", "ISIN", "b/s",
             "qty", "exec price", "PnL", "TimeDT", "inc_t_s">>

NumericCols == {"qty", "exec price", "PnL", "inc_t_s"}

\* A TimeDT cell is a timestamp counted in ticks of 1/TicksPerSecond s since
\* the midnight of day 0: the datetimes of the rows carry a part below the
\* second, the Time cell (strftime("%H:%M:%S")) does not.
TicksPerSecond == 2

\* The row of a trade at the whole second t.
MkRow(t, nom, ex, cp, isin, side, qty, price, pnl, inc) ==
    ("Time" :> t) @@ ("nombre" :> nom) @@ ("Exchange" :> ex) @@
    ("counterparty" :> cp) @@ ("ISIN" :> isin) @@ ("b/s" :> side) @@
    ("qty" :> qty) @@ ("exec price" :> price) @@ ("PnL" :> pnl) @@
    ("TimeDT" :> t * TicksPerSecond) @@ ("inc_t_s" :> inc)

\* 0..n-1 as a sequence: the index reset_index(drop=True) gives.
RangeIndex(n) == [i \in 1..n |-> i - 1]

\* A well-formed snapshot with a contiguous index.
Frame(rows) ==
    [columns |-> AllCols, numeric |-> NumericCols,
     index |-> RangeIndex(Len(rows)), rows |-> rows]

HasCol(df, col) == col \in Range(df.columns)

Empty(df) == Len(df.rows) = 0

\* df[mask]: the rows (and their labels) at the positions where the boolean
\* series mask holds.
RECURSIVE Positions(_, _)
Positions(mask, i) ==
    IF i > Len(mask) THEN <<>>
    ELSE (IF mask[i] THEN <<i>> ELSE <<>>) \o Positions(mask, i + 1)

Mask(df, mask) ==
    LET pos == Positions(mask, 1)
    IN [df EXCEPT !.index = [k \in 1..Len(pos) |-> df.index[pos[k]]],
                  !.rows  = [k \in 1..Len(pos) |-> df.rows[pos[k]]]]

ResetIndex(df) == [df EXCEPT !.index = RangeIndex(Len(df.rows))]

----------------------------------------------------------------------------
(* Texts typed into the entries are sequences of characters. *)

Digits == {"0", "1", "2", "3", "4", "5", "6", "7", "8", "9"}

DigitVal(c) ==
    CASE c = "0" -> 0 [] c = "1" -> 1 [] c = "2" -> 2 [] c = "3" -> 3
      [] c = "4" -> 4 [] c = "5" -> 5 [] c = "6" -> 6 [] c = "7" -> 7
      [] c = "8" -> 8 [] c = "9" -> 9

\* str.strip()
RECURSIVE LStrip(_)
LStrip(s) == IF s # <<>> /\ Head(s) = " " THEN LStrip(Tail(s)) ELSE s

RECURSIVE RStrip(_)
RStrip(s) ==
    IF s # <<>> /\ s[Len(s)] = " " THEN RStrip(SubSeq(s, 1, Len(s) - 1)) ELSE s

Strip(s) == RStrip(LStrip(s))

\* str.replace(",", ".")
CommaToDot(s) == [i \in 1..Len(s) |-> IF s[i] = "," THEN "." ELSE s[i]]

\* The value of a digit string, most significant digit first.
RECURSIVE DigitsVal(_)
DigitsVal(s) ==
    IF s = <<>> THEN 0 ELSE 10 * DigitsVal(SubSeq(s, 1, Len(s) - 1)) + DigitVal(s[Len(s)])

NoFloat == [ok |-> FALSE, m |-> 0, d |-> 0]

\* float(s) on the characters the entries of the model hold (digits, sign,
\* point, blanks, letters a-c): [sign] digits [. digits] with at least one
\* digit, anything else is a ValueError.  The value is m / 10^d.
PyFloatParts(ip, fp, neg) ==
    IF Len(ip) + Len(fp) >= 1
    THEN [ok |-> TRUE,
          m  |-> IF neg THEN 0 - DigitsVal(ip \o fp) ELSE DigitsVal(ip \o fp),
          d  |-> Len(fp)]
    ELSE NoFloat

PyFloatAt(body, dot, neg) ==
    PyFloatParts(SubSeq(body, 1, dot - 1), SubSeq(body, dot + 1, Len(body)), neg)

PyFloatBody(body, dots, neg) ==
    IF Cardinality(dots) <= 1 /\ \A i \in 1..Len(body) : body[i] \in Digits \cup {"."}
    THEN PyFloatAt(body, IF dots = {} THEN Len(body) + 1 ELSE CHOOSE i \in dots : TRUE, neg)
    ELSE NoFloat

PyFloatUnsigned(body, neg) ==
    PyFloatBody(body, {i \in 1..Len(body) : body[i] = "."}, neg)

PyFloatSigned(s, signed) ==
    PyFloatUnsigned(IF signed THEN Tail(s) ELSE s, signed /\ s[1] = "-")

PyFloat(s) == PyFloatSigned(s, s # <<>> /\ s[1] \in {"+", "-"})

\* lm.utils.numbers.safe_float with default None: ok = FALSE stands for None.
safe_float(s) == PyFloat(Strip(CommaToDot(s)))

\* A comparison that leaves out the bound itself.
GtBound(v, b) == v * Pow10(b.d) > b.m

\* value >= bound and value <= bound for an integer cell and a parsed bound.
GeBound(v, b) == v * Pow10(b.d) >= b.m
LeBound(v, b) == v * Pow10(b.d) <= b.m

----------------------------------------------------------------------------
(* The dynamic filters.  dynamic_filters is a sequence of entries in the   *)
(* dict's insertion order; a "cat" entry holds the listbox (its values and *)
(* curselection, as positions in values), a "num" entry the two entries'   *)
(* texts.                                                                  *)

AllSentinel == "(All)"

SkipFilterCols == {"Time", "TimeDT"}

NoText == <<>>

CatEntry(col, values, sel) ==
    [col |-> col, type |-> "cat", values |-> values, sel |-> sel]

NumEntry(col, smin, smax) ==
    [col |-> col, type |-> "num", min_var |-> smin, max_var |-> smax]

\* list.index(v): the first position of v.
IndexOf(seq, v) == CHOOSE i \in 1..Len(seq) : seq[i] = v /\ \A j \in 1..(i - 1) : seq[j] # v

\* The selection build_dynamic_filters saved for col, or "none".
PrevOf(old, col) ==
    LET hits == {k \in 1..Len(old) : old[k].col = col}
    IN IF hits = {} THEN [kind |-> "none"]
       ELSE LET e == old[CHOOSE k \in hits : TRUE]
            IN IF e.type = "cat"
               THEN [kind |-> "cat",
                     chosen |-> IF e.sel = {} THEN {AllSentinel}
                                ELSE {e.values[i] : i \in e.sel}]
               ELSE [kind |-> "num", min |-> e.min_var, max |-> e.max_var]

\* The entry build_dynamic_filters makes for one column of df.
BuildEntry(df, old, col) ==
    LET prev == PrevOf(old, col)
    IN IF col \notin df.numeric
       THEN LET values == <<AllSentinel>> \o
                          SortedStrs({StrOf(df.rows[i][col]) : i \in 1..Len(df.rows)})
                want   == IF prev.kind = "cat" THEN prev.chosen
                          ELSE IF prev.kind = "num" THEN {}
                          ELSE {AllSentinel}
                idx    == {IndexOf(values, v) : v \in {w \in want : w \in Range(values)}}
            IN CatEntry(col, values, IF idx = {} THEN {1} ELSE idx)
       ELSE IF prev.kind = "num"
            THEN NumEntry(col, prev.min, prev.max)
            ELSE NumEntry(col, NoText, NoText)

\* TradesApp.build_dynamic_filters(df), old being dynamic_filters before.
RECURSIVE BuildFrom(_, _, _)
BuildFrom(df, old, i) ==
    IF i > Len(df.columns) THEN <<>>
    ELSE IF df.columns[i] \in SkipFilterCols THEN BuildFrom(df, old, i + 1)
    ELSE <<BuildEntry(df, old, df.columns[i])>> \o BuildFrom(df, old, i + 1)

build_dynamic_filters(df, old) == BuildFrom(df, old, 1)

\* The values chosen in a listbox without the sentinel (chosen_wo_all).
ChosenWoAll(f) == {f.values[i] : i \in f.sel} \ {AllSentinel}

\* A membership test that treats a missing cell as matching nothing.
CatKeepDropNA(chosen, v) == v # NA /\ v \in chosen

\* df[col].astype(str).isin(chosen_wo_all) for one cell.
CatKeep(chosen, v) == StrOf(v) \in chosen

\* A comparison of a column with a number raises a KeyError when df lacks
\* the column, a TypeError when the column holds text.
NumBad(df, col) == ~HasCol(df, col) \/ (col \notin df.numeric /\ ~Empty(df))

\* if v is not None: df = df[df[col] >= v]   (or <=); acc.ok = FALSE once an
\* exception was raised.
FilterBound(acc, col, b, isMin) ==
    IF ~acc.ok \/ ~b.ok THEN acc
    ELSE IF NumBad(acc.df, col) THEN [acc EXCEPT !.ok = FALSE]
    ELSE [ok |-> TRUE,
          df |-> Mask(acc.df, [i \in 1..Len(acc.df.rows) |->
                                 IF isMin THEN GeBound(acc.df.rows[i][col], b)
                                          ELSE LeBound(acc.df.rows[i][col], b)])]

\* The branch of the loop for a min / max pair.
FilterNum(acc, f) ==
    FilterBound(FilterBound(acc, f.col, safe_float(Strip(f.min_var)), TRUE),
                f.col, safe_float(Strip(f.max_var)), FALSE)

\* The branch of the loop for a listbox.
FilterCat(acc, f, chosen) ==
    IF chosen = {} THEN acc
    ELSE IF HasCol(acc.df, f.col)
    THEN [ok |-> TRUE, df |-> Mask(acc.df, [i \in 1..Len(acc.df.rows) |->
                                   CatKeep(chosen, acc.df.rows[i][f.col])])]
    ELSE [acc EXCEPT !.ok = FALSE]

\* One entry of the loop of apply_dynamic_filters.
FilterOne(acc, f) ==
    IF ~acc.ok THEN acc
    ELSE IF f.type = "cat" THEN FilterCat(acc, f, ChosenWoAll(f))
    ELSE FilterNum(acc, f)

RECURSIVE FilterLoop(_, _, _)
FilterLoop(acc, filters, i) ==
    IF i > Len(filters) THEN acc
    ELSE FilterLoop(FilterOne(acc, filters[i]), filters, i + 1)

\* The filter loop without the final reset_index.
FilteredFrameKeepIndex(all, filters) ==
    LET res == FilterLoop([ok |-> TRUE, df |-> all], filters, 1)
    IN [ok |-> res.ok, df |-> res.df]

\* The body of apply_dynamic_filters up to the assignment of df_filtered:
\* ok tells whether it got there, df is the new df_filtered.
FilteredFrame(all, filters) ==
    LET res == FilterLoop([ok |-> TRUE, df |-> all], filters, 1)
    IN [ok |-> res.ok, df |-> ResetIndex(res.df)]

\* A filter pass that narrows the snapshot itself.
apply_in_place(all, filtered, filters) ==
    LET res == FilteredFrame(all, filters)
    IN [df_all |-> IF res.ok THEN res.df ELSE all,
        df_filtered |-> IF res.ok THEN res.df ELSE filtered,
        ok |-> res.ok]

\* TradesApp.apply_dynamic_filters: the new app state.  df_all is read, never
\* assigned; an exception leaves df_filtered as it was.
apply_dynamic_filters(all, filtered, filters) ==
    LET res == FilteredFrame(all, filters)
    IN [df_all |-> all,
        df_filtered |-> IF res.ok THEN res.df ELSE filtered,
        ok |-> res.ok]

\* A reset that leaves the texts of the numeric entries alone.
ClearedEntryCatOnly(f) ==
    IF f.type = "cat" /\ Len(f.values) > 0 THEN [f EXCEPT !.sel = {1}] ELSE f

\* The loop of clear_all_dynamic_filters over the widgets.
ClearedEntry(f) ==
    IF f.type = "cat"
    THEN IF Len(f.values) > 0
         THEN [f EXCEPT !.sel = {IF AllSentinel \in Range(f.values)
                                 THEN IndexOf(f.values, AllSentinel) ELSE 1}]
         ELSE f
    ELSE [f EXCEPT !.min_var = NoText, !.max_var = NoText]

\* TradesApp.clear_all_dynamic_filters: the new filters and df_filtered.
clear_all_dynamic_filters(all, filters) ==
    [dynamic_filters |-> [k \in 1..Len(filters) |-> ClearedEntry(filters[k])],
     df_filtered |-> all]

----------------------------------------------------------------------------
(* The global summaries (update_global_summaries), computed from a frame.  *)
(* A mean is kept exact, as the pair [num, den].                           *)

\* The sum of a column, taken half by half to keep the recursion shallow.
RECURSIVE SumOver(_, _)
SumOver(rows, col) ==
    IF rows = <<>> THEN 0
    ELSE IF Len(rows) = 1 THEN rows[1][col]
    ELSE SumOver(SubSeq(rows, 1, Len(rows) \div 2), col)
             + SumOver(SubSeq(rows, (Len(rows) \div 2) + 1, Len(rows)), col)

Abs(x) == IF x < 0 THEN 0 - x ELSE x

Max2(a, b) == IF a >= b THEN a ELSE b

\* Aggregates that count the rows with a PnL of zero in no group.
GroupStatsNonZero(keycol, key, rows) ==
    LET scored == SelectSeq(rows, LAMBDA r : r["PnL"] # 0)
    IN [key        |-> key,
        trades     |-> Len(scored),
        pos_trades |-> Len(SelectSeq(rows, LAMBDA r : r["PnL"] > 0)),
        neg_trades |-> Len(SelectSeq(rows, LAMBDA r : r["PnL"] < 0)),
        pct_pos    |-> [num |-> 0, den |-> 1],
        dt_mean    |-> [num |-> 0, den |-> 1],
        pnl_mean   |-> [num |-> 0, den |-> 1],
        pnl_total  |-> SumOver(rows, "PnL"),
        pnl_pos    |-> 0,
        pnl_neg    |-> 0]

\* The aggregates of a make_summary that takes a trade without gain for a
\* trade with gain.
GroupStatsNonNeg(keycol, key, rows) ==
    LET pos == SelectSeq(rows, LAMBDA r : r["PnL"] >= 0)
        neg == SelectSeq(rows, LAMBDA r : r["PnL"] < 0)
    IN [key        |-> key,
        trades     |-> Len(rows),
        pos_trades |-> Len(pos),
        neg_trades |-> Len(neg),
        pct_pos    |-> [num |-> 100 * Len(pos), den |-> Max2(1, Len(rows))],
        dt_mean    |-> [num |-> SumOver(rows, "inc_t_s"), den |-> Len(rows)],
        pnl_mean   |-> [num |-> SumOver(rows, "PnL"), den |-> Len(rows)],
        pnl_total  |-> SumOver(rows, "PnL"),
        pnl_pos    |-> SumOver(pos, "PnL"),
        pnl_neg    |-> SumOver(neg, "PnL")]

\* The aggregates make_summary computes for the rows of one group.
GroupStats(keycol, key, rows) ==
    LET pos == SelectSeq(rows, LAMBDA r : r["PnL"] > 0)
        neg == SelectSeq(rows, LAMBDA r : r["PnL"] < 0)
    IN [key        |-> key,
        trades     |-> Len(rows),
        pos_trades |-> Len(pos),
        neg_trades |-> Len(neg),
        pct_pos    |-> [num |-> 100 * Len(pos), den |-> Max2(1, Len(rows))],
        dt_mean    |-> [num |-> SumOver(rows, "inc_t_s"), den |-> Len(rows)],
        pnl_mean   |-> [num |-> SumOver(rows, "PnL"), den |-> Len(rows)],
        pnl_total  |-> SumOver(rows, "PnL"),
        pnl_pos    |-> SumOver(pos, "PnL"),
        pnl_neg    |-> SumOver(neg, "PnL")]

\* sort_values(by, ascending=False) with the default kind, "quicksort",
\* which is not stable: the outcomes are the orders of the rows in which no
\* row comes before a row that has more, rows that have as much in any
\* order.  S is the set of the rows.
RECURSIVE SortDescOutcomes(_, _)
SortDescOutcomes(S, by) ==
    IF S = {} THEN {<<>>}
    ELSE LET top == {g \in S : \A h \in S : g[by] >= h[by]}
         IN UNION {{<<g>> \o rest : rest \in SortDescOutcomes(S \ {g}, by)} : g \in top}

\* make_summary(df, keycol): groupby drops the rows whose key is missing and
\* makes a group of every key; then the sort by pnl_total.  outcomes are the
\* frames the call can return, none when it raises.
make_summary(df, keycol) ==
    IF Empty(df) THEN [ok |-> TRUE, outcomes |-> {<<>>}]
    ELSE IF ~(HasCol(df, keycol) /\ HasCol(df, "PnL") /\ HasCol(df, "inc_t_s"))
    THEN [ok |-> FALSE, outcomes |-> {}]
    ELSE LET keys   == {df.rows[i][keycol] : i \in 1..Len(df.rows)} \ {NA}
             groups == {GroupStats(keycol, key,
                                   SelectSeq(df.rows, LAMBDA r : r[keycol] = key)) :
                          key \in keys}
         IN [ok |-> TRUE, outcomes |-> SortDescOutcomes(groups, "pnl_total")]

\* f"{x:.1f}" of the fraction q >= 0, in tenths: the nearest tenth, the even
\* one of the two when q is half way between them.
Tenths(q) ==
    LET n == 10 * q.num
        f == n \div q.den
        r == n % q.den
    IN IF 2 * r > q.den \/ (2 * r = q.den /\ f % 2 = 1) THEN f + 1 ELSE f

(* The cells of the summary tables.  A cell text is a sequence of          *)
(* characters; a character outside ASCII is written as its code point.  A  *)
(* number is kept exact, as the fraction [num, den] with den > 0.           *)

\* The minus sign _format_value writes, U+2212.
UnicodeMinus == "U+2212"

\* The characters of SummaryTable._re_space_like.
SpaceLike == {" ", "U+00A0", "U+2007", "U+202F"}

\* The dashes _normalize_minus turns into "-".
MinusLike == {UnicodeMinus, "U+2012", "U+2013", "U+2014"}

\* The currency signs _parse_number_like removes: euro, dollar, pound.
CurrencySigns == {"U+20AC", "$", "U+00A3"}

\* TradesApp.summary_cols; the fourth heading is written with a capital
\* delta in the source.
summary_cols == <<"Key", "Trades", "% Trades PnL+", "Dt medio (s)", "PnL medio", "PnL">>

\* The headings whose lower-case form holds "pnl+" and "%".
IsPctCol(col) == col \in {"% Trades PnL+"}

\* The headings whose lower-case form holds "pnl" and not "pnl+".
IsPnlCol(col) == col \in {"PnL medio", "PnL"}

DigitChars == <<"0", "1", "2", "3", "4", "5", "6", "7", "8", "9">>

\* str(n) for n >= 0.
RECURSIVE DigitsOf(_)
DigitsOf(n) ==
    IF n < 10 THEN <<DigitChars[n + 1]>>
    ELSE DigitsOf(n \div 10) \o <<DigitChars[(n % 10) + 1]>>

\* f"{n:,}" for n >= 0: a comma before every group of three digits.
RECURSIVE Grouped(_)
Grouped(n) ==
    IF n < 1000 THEN DigitsOf(n)
    ELSE Grouped(n \div 1000)
             \o <<",", DigitChars[((n % 1000) \div 100) + 1],
                  DigitChars[((n % 100) \div 10) + 1], DigitChars[(n % 10) + 1]>>

RatAbs(q) == [num |-> Abs(q.num), den |-> q.den]

\* f"{q:.1f}" (sep false) and f"{q:,.1f}" (sep true) for q >= 0.
FixedOne(q, sep) ==
    (IF sep THEN Grouped(Tenths(q) \div 10) ELSE DigitsOf(Tenths(q) \div 10))
        \o <<".", DigitChars[(Tenths(q) % 10) + 1]>>

\* The same for any q: Python writes the sign of a negative number even
\* when every digit shown is zero.
SignedFixedOne(q, sep) ==
    IF q.num < 0 THEN <<"-">> \o FixedOne(RatAbs(q), sep) ELSE FixedOne(q, sep)

\* SummaryTable._normalize_minus
normalize_minus(s) == [i \in 1..Len(s) |-> IF s[i] \in MinusLike THEN "-" ELSE s[i]]

Without(s, chars) == SelectSeq(s, LAMBDA c : c \notin chars)

\* s0.startswith("(") and s0.endswith(")")
IsParenNegative(s0) == s0 # <<>> /\ s0[1] = "(" /\ s0[Len(s0)] = ")"

\* s0[1:-1] when the text is in parentheses.
Unparen(s0) == IF IsParenNegative(s0) THEN SubSeq(s0, 2, Len(s0) - 1) ELSE s0

\* s0[:-1] when the text ends with "%".
DropPct(s0) == IF s0 # <<>> /\ s0[Len(s0)] = "%" THEN SubSeq(s0, 1, Len(s0) - 1) ELSE s0

\* SummaryTable._parse_number_like on a text: ok = FALSE stands for None,
\* the value is m / 10^d.  The percent sign is dropped and the value left
\* in the units it is written in.
parse_number_like(s) ==
    IF Strip(s) = <<>> THEN NoFloat
    ELSE LET s0 == normalize_minus(Without(Strip(s), SpaceLike))
             x  == PyFloat(Without(DropPct(Without(Unparen(s0), CurrencySigns)), {","}))
         IN IF x.ok /\ IsParenNegative(s0) THEN [x EXCEPT !.m = 0 - Abs(x.m)] ELSE x

\* A cell value: a number, or a text.
NumVal(q) == [kind |-> "num", q |-> q]
StrVal(s) == [kind |-> "str", text |-> s]

\* x *= 100.0 when 0.0 <= x <= 1.0
PctScaled(x) ==
    IF x.num >= 0 /\ x.num <= x.den THEN [num |-> 100 * x.num, den |-> x.den] ELSE x

\* "+" if x >= 0 else the unicode minus
SignOf(x) == IF x.num >= 0 THEN <<"+">> ELSE <<UnicodeMinus>>

\* abs(x - int(x)) < 1e-9: no fraction of the model, its denominator being
\* far below 10^9, is that near to an integer without being one.
IntegerLike(x) == Abs(x.num) % x.den = 0

\* f"{int(x):,}": int() cuts the fraction off, towards zero.
IntText(x) ==
    IF x.num < 0 /\ Abs(x.num) \div x.den > 0
    THEN <<"-">> \o Grouped(Abs(x.num) \div x.den)
    ELSE Grouped(Abs(x.num) \div x.den)

\* The three rules of _format_value for the number x under the heading col.
FormatNumber(col, x) ==
    IF IsPctCol(col)
    THEN SignOf(PctScaled(x)) \o FixedOne(RatAbs(PctScaled(x)), TRUE) \o <<"%">>
    ELSE IF IsPnlCol(col) THEN SignOf(x) \o FixedOne(RatAbs(x), TRUE)
    ELSE IF IntegerLike(x) THEN IntText(x)
    ELSE SignedFixedOne(x, TRUE)

\* SummaryTable._format_value(col, val): a number is formatted as it is, a
\* text is parsed first and drawn as it is when it is no number.
format_value(col, val) ==
    IF val.kind = "num" THEN FormatNumber(col, val.q)
    ELSE LET parsed == parse_number_like(val.text)
         IN IF parsed.ok
            THEN FormatNumber(col, [num |-> parsed.m, den |-> Pow10(parsed.d)])
            ELSE val.text

\* A head that cuts nothing off.
WholeFrame(rows, n) == rows

\* DataFrame.head(n)
HeadRows(rows, n) == SubSeq(rows, 1, IF Len(rows) < n THEN Len(rows) ELSE n)

\* str.upper() on the instrument names of the model.
Upper(s) == CASE s = "tsla" -> "TSLA" [] s = "nvda" -> "NVDA" [] OTHER -> s

MainValues == <<"TSLA", "NVDA">>

BucketCol == "nombre"

\* The bucket of a row whose name has to match a main value letter by letter.
BucketOfExact(r) ==
    LET u == StrOf(r[BucketCol])
    IN IF u = MainValues[2] THEN MainValues[2]
       ELSE IF u = MainValues[1] THEN MainValues[1]
       ELSE "Other"

\* The bucket update_from_df puts a row in.
BucketOf(r) ==
    LET u == Upper(StrOf(r[BucketCol]))
    IN IF u = Upper(MainValues[2]) THEN MainValues[2]
       ELSE IF u = Upper(MainValues[1]) THEN MainValues[1]
       ELSE "Other"

Vol(r) == Abs(r["qty"]) * Abs(r["exec price"])

RECURSIVE SumVol(_)
SumVol(rows) ==
    IF rows = <<>> THEN 0
    ELSE IF Len(rows) = 1 THEN Vol(rows[1])
    ELSE SumVol(SubSeq(rows, 1, Len(rows) \div 2))
             + SumVol(SubSeq(rows, (Len(rows) \div 2) + 1, Len(rows)))

\* The volumes of counterparty cp in bucket b.
VolumeOf(df, cp, b) ==
    SumVol(SelectSeq(df.rows, LAMBDA r : r["counterparty"] = cp /\ BucketOf(r) = b))

\* The row of counterparty cp after the groupby and the total.
VolumeRow(df, cp) ==
    [cp    |-> cp,
     vol1  |-> VolumeOf(df, cp, MainValues[1]),
     vol2  |-> VolumeOf(df, cp, MainValues[2]),
     other |-> VolumeOf(df, cp, "Other"),
     total |-> VolumeOf(df, cp, MainValues[1]) + VolumeOf(df, cp, MainValues[2])
               + VolumeOf(df, cp, "Other")]

RECURSIVE SumTotals(_)
SumTotals(S) ==
    IF S = {} THEN 0
    ELSE LET g == CHOOSE x \in S : TRUE IN g.total + SumTotals(S \ {g})

\* The rows given to set_rows for the sorted frame: those with a total, with
\* the global total the share of each is taken of.
ShownRows(sorted, total_global) ==
    LET shown == SelectSeq(sorted, LAMBDA r : r.total > 0)
    IN [k \in 1..Len(shown) |->
          [cp |-> shown[k].cp, vol1 |-> shown[k].vol1, vol2 |-> shown[k].vol2,
           other |-> shown[k].other, total |-> shown[k].total,
           total_global |-> total_global]]

\* CounterpartyVolumeTable.update_from_df(df): the rows the call can give to
\* set_rows (the volumes and the two totals of each row kept as numbers),
\* one outcome for every order the sort by total can leave equal totals in.
update_from_df(df) ==
    IF Empty(df) \/ ~({"counterparty", BucketCol, "qty", "exec price"} \subseteq Range(df.columns))
    THEN {<<>>}
    ELSE LET g == {VolumeRow(df, cp) :
                     cp \in {df.rows[i]["counterparty"] : i \in 1..Len(df.rows)} \ {NA}}
             total_global == IF SumTotals(g) > 0 THEN SumTotals(g) ELSE 1
         IN {ShownRows(sorted, total_global) : sorted \in SortDescOutcomes(g, "total")}

\* The cells of a row of rows_from_df that are plain texts, by heading; the
\* Trades and the PnL cell are rich texts and the key is drawn as it is.
TextCols == {"% Trades PnL+", "Dt medio (s)", "PnL medio"}

\* The text rows_from_df puts under a heading for the group g.
CellOf(g, col) ==
    CASE col = "% Trades PnL+" -> StrVal(FixedOne(g.pct_pos, FALSE) \o <<"%">>)
      [] col = "Dt medio (s)"  -> StrVal(SignedFixedOne(g.dt_mean, FALSE))
      [] col = "PnL medio"     -> StrVal(SignedFixedOne(g.pnl_mean, FALSE))

\* rows_from_df(df, keyname)
rows_from_df(groups) == [i \in 1..Len(groups) |-> [col \in TextCols |-> CellOf(groups[i], col)]]

\* SummaryTable._render: the text drawn in every cell of every row.
render(rows) ==
    [i \in 1..Len(rows) |-> [col \in DOMAIN rows[i] |-> format_value(col, rows[i][col])]]

\* set_rows(rows_from_df(groups)): what the canvas shows afterwards.
Drawn(groups) == render(rows_from_df(groups))

NoSummaries ==
    [exch |-> <<>>, isin |-> <<>>, nombre |-> <<>>, cp |-> <<>>,
     drawn |-> [exch |-> <<>>, isin |-> <<>>, nombre |-> <<>>]]

\* The body of update_global_summaries run on df: what the four tables can
\* show after the call, old being their rows before.  An exception in a
\* make_summary is caught at the end of the method: no table is given new
\* rows then.
SummariesOf(df, old) ==
    IF make_summary(df, "Exchange").ok /\ make_summary(df, "ISIN").ok
       /\ make_summary(df, "nombre").ok
    THEN {[exch   |-> g_ex,
           isin   |-> HeadRows(g_isin, IsinCap),
           nombre |-> g_nom,
           cp     |-> rows,
           drawn  |-> [exch   |-> Drawn(g_ex),
                       isin   |-> Drawn(HeadRows(g_isin, IsinCap)),
                       nombre |-> Drawn(g_nom)]] :
             g_ex   \in make_summary(df, "Exchange").outcomes,
             g_isin \in make_summary(df, "ISIN").outcomes,
             g_nom  \in make_summary(df, "nombre").outcomes,
             rows   \in update_from_df(df)}
    ELSE {old}

\* Summaries taken from the filtered view.
update_filtered_summaries(all, filtered, old) == SummariesOf(filtered, old)

\* TradesApp.update_global_summaries: every table is computed from
\* self.df_all.
update_global_summaries(all, filtered, old) == SummariesOf(all, old)

----------------------------------------------------------------------------
(* Sorting the main table. *)

\* The column sort_main_by sorts by for a heading.
SortColumn(col) == IF col = "Time" THEN "TimeDT" ELSE col

\* a sorts before b in ascending order (neither is missing).
KeyLess(a, b, numbers) == IF numbers THEN a < b ELSE StrRank(a) < StrRank(b)

\* r put into rows sorted by `by`: behind the rows that do not sort after it,
\* rows with a missing key (text columns only) last.
RECURSIVE InsertSorted(_, _, _, _, _)
InsertSorted(sorted, r, by, asc, numbers) ==
    IF sorted = <<>> THEN <<r>>
    ELSE LET h == Head(sorted)
         IN IF ~numbers /\ r[by] = NA
            THEN <<h>> \o InsertSorted(Tail(sorted), r, by, asc, numbers)
            ELSE IF ~numbers /\ h[by] = NA THEN <<r>> \o sorted
            ELSE IF (asc /\ KeyLess(r[by], h[by], numbers))
                    \/ (~asc /\ KeyLess(h[by], r[by], numbers))
            THEN <<r>> \o sorted
            ELSE <<h>> \o InsertSorted(Tail(sorted), r, by, asc, numbers)

\* A sort that is not stable: rows with equal keys come out in the reverse
\* of the order they had.
RECURSIVE SortValuesTiesTurned(_, _, _, _)
SortValuesTiesTurned(rows, by, asc, numbers) ==
    IF rows = <<>> THEN <<>>
    ELSE InsertSorted(SortValuesTiesTurned(Tail(rows), by, asc, numbers),
                      Head(rows), by, asc, numbers)

\* sort_values(by, ascending=asc, kind="mergesort") on the rows: stable.
RECURSIVE SortValues(_, _, _, _)
SortValues(rows, by, asc, numbers) ==
    IF rows = <<>> THEN <<>>
    ELSE InsertSorted(SortValues(SubSeq(rows, 1, Len(rows) - 1), by, asc, numbers),
                      rows[Len(rows)], by, asc, numbers)

\* TradesApp.sort_main_by(col): the direction is flipped and stored before the
\* sort, so it stays flipped when the sort raises on a missing column.
sort_main_by(filtered, state, col) ==
    LET asc == ~(IF col \in DOMAIN state THEN state[col] ELSE TRUE)
        by  == SortColumn(col)
        ok  == HasCol(filtered, by)
        numbers == by \in filtered.numeric \cup {"TimeDT"}
    IN [sort_state_main |-> [c \in DOMAIN state \cup {col} |->
                                IF c = col THEN asc ELSE state[c]],
        df_filtered |-> IF ok
                        THEN ResetIndex([filtered EXCEPT
                                 !.rows = SortValues(filtered.rows, by, asc, numbers)])
                        ELSE filtered,
        ok |-> ok]

----------------------------------------------------------------------------
(* The views of df_filtered: the main table with its KPIs and the three    *)
(* cumulative charts.  A line of a chart is the sequence of the points     *)
(* [t : a second, v : the value] it was given.  Every row of the model has *)
(* a timestamp and numbers in its numeric columns, so the to_datetime /    *)
(* to_numeric coercions and the dropna that follows them keep every row.   *)

\* The matplotlib import of the module succeeded.
MATPLOTLIB_OK == TRUE

DaySeconds == 86400

WindowStartHour == 8

WindowEndHour == 22

\* Timestamp.floor("s"), and the 1 s bin resample puts a timestamp in.
SecondOf(ts) == ts \div TicksPerSecond

\* TradesApp._day_window_bounds(ts): 08:00:00 and 22:00:00 of the day of ts.
day_window_bounds(ts) ==
    LET day == SecondOf(ts) \div DaySeconds
    IN [start |-> (day * DaySeconds + WindowStartHour * 3600) * TicksPerSecond,
        end   |-> (day * DaySeconds + WindowEndHour * 3600) * TicksPerSecond]

\* df[(df["TimeDT"] >= start) & (df["TimeDT"] <= end)]
InWindow(rows, w) ==
    SelectSeq(rows, LAMBDA r : r["TimeDT"] >= w.start /\ r["TimeDT"] <= w.end)

\* A point of a series that holds NaN is a point without the field v.
HasValue(p) == "v" \in DOMAIN p

\* The sum of the values of the points, a NaN skipped.
RECURSIVE SumV(_)
SumV(points) ==
    IF points = <<>> THEN 0
    ELSE (IF HasValue(Head(points)) THEN Head(points).v ELSE 0) + SumV(Tail(points))

MinSecond(points) ==
    CHOOSE s \in {SecondOf(points[i].ts) : i \in 1..Len(points)} :
        \A i \in 1..Len(points) : s <= SecondOf(points[i].ts)

MaxSecond(points) ==
    CHOOSE s \in {SecondOf(points[i].ts) : i \in 1..Len(points)} :
        \A i \in 1..Len(points) : s >= SecondOf(points[i].ts)

\* The contributions [ts, v] that fall into the second s.
InSecond(points, s) == SelectSeq(points, LAMBDA p : SecondOf(p.ts) = s)

\* resample("1s").sum() of the contributions [ts, v]: one bin for every
\* second from the first to the last one with a contribution, an empty bin
\* summing to 0.
ResampleSum(points) ==
    IF points = <<>> THEN <<>>
    ELSE LET first == MinSecond(points)
         IN [k \in 1..(MaxSecond(points) - first + 1) |->
               [t |-> first + k - 1, v |-> SumV(InSecond(points, first + k - 1))]]

\* The seconds of a set, ascending.
RECURSIVE SortedSeconds(_)
SortedSeconds(S) ==
    IF S = {} THEN <<>>
    ELSE LET m == CHOOSE x \in S : \A y \in S : x <= y
         IN <<m>> \o SortedSeconds(S \ {m})

\* groupby(level=0).size() on the floored timestamps: one entry for every
\* second that has a row, in ascending order.
SizeBySecond(points) ==
    LET secs == SortedSeconds({SecondOf(points[i].ts) : i \in 1..Len(points)})
    IN [k \in 1..Len(secs) |-> [t |-> secs[k], v |-> Len(InSecond(points, secs[k]))]]

\* The series as it was given, without the seconds in between.
reindex_as_is(series, fill) == series

\* s.reindex(pd.date_range(s.index[0], s.index[-1], freq="1s"),
\*           fill_value=fill): every second from the first label to the last,
\* the value of the series where it has the label, fill where it has not.
reindex(series, fill) ==
    IF series = <<>> THEN <<>>
    ELSE LET first == series[1].t
             final == series[Len(series)].t
         IN [k \in 1..(final - first + 1) |->
               IF \E j \in 1..Len(series) : series[j].t = first + k - 1
               THEN series[CHOOSE j \in 1..Len(series) : series[j].t = first + k - 1]
               ELSE [t |-> first + k - 1, v |-> fill]]

\* The running sum of the series from the sum acc of what came before.
RECURSIVE CumFrom(_, _)
CumFrom(series, acc) ==
    IF series = <<>> THEN <<>>
    ELSE IF HasValue(Head(series))
    THEN <<[t |-> Head(series).t, v |-> acc + Head(series).v]>>
             \o CumFrom(Tail(series), acc + Head(series).v)
    ELSE <<Head(series)>> \o CumFrom(Tail(series), acc)

\* Series.cumsum(): the running sum, NaN where the series holds NaN.
cumsum(series) == CumFrom(series, 0)

\* The contributions of the rows to the PnL chart and to the trades chart.
PnlPoints(rows) == [i \in 1..Len(rows) |-> [ts |-> rows[i]["TimeDT"], v |-> rows[i]["PnL"]]]

TradePoints(rows) == [i \in 1..Len(rows) |-> [ts |-> rows[i]["TimeDT"], v |-> 1]]

\* The rows a time chart draws: sorted by TimeDT, then those inside the
\* 08-22 window of the day of the first of them.
ChartRows(rows) ==
    LET sorted == SortValues(rows, "TimeDT", TRUE, TRUE)
    IN IF sorted = <<>> THEN <<>>
       ELSE InWindow(sorted, day_window_bounds(sorted[1]["TimeDT"]))

\* TradesApp.update_cumulative_pnl: the points given to the line; old is
\* the line before the call.
update_cumulative_pnl(dfv, old) ==
    IF ~MATPLOTLIB_OK THEN old
    ELSE IF Empty(dfv) \/ ~HasCol(dfv, "TimeDT") \/ ~HasCol(dfv, "PnL") THEN <<>>
    ELSE cumsum(reindex(ResampleSum(PnlPoints(ChartRows(dfv.rows))), 0))

\* TradesApp.update_trades_over_time
update_trades_over_time(dfv, old) ==
    IF ~MATPLOTLIB_OK THEN old
    ELSE IF Empty(dfv) \/ ~HasCol(dfv, "TimeDT") THEN <<>>
    ELSE cumsum(reindex(SizeBySecond(TradePoints(ChartRows(dfv.rows))), 0))

ChartBuckets == <<"TSLA", "NVDA", "Other">>

\* The bucket update_volume_over_time puts a row in.
ChartBucketOf(r) ==
    LET names == Upper(StrOf(r["nombre"]))
    IN IF names = "NVDA" THEN "NVDA" ELSE IF names = "TSLA" THEN "TSLA" ELSE "Other"

\* The rows the volume chart draws: those inside the window of the day of
\* the first row, the rows in the order df_filtered has them.
VolumeRows(rows) ==
    IF rows = <<>> THEN <<>>
    ELSE InWindow(rows, day_window_bounds(rows[1]["TimeDT"]))

VolPoints(rows, b) ==
    LET mine == SelectSeq(rows, LAMBDA r : ChartBucketOf(r) = b)
    IN [i \in 1..Len(mine) |-> [ts |-> mine[i]["TimeDT"], v |-> Vol(mine[i])]]

\* groupby("bucket")["vol"].resample("1s").sum(): every bucket is resampled
\* over its own seconds, from its first to its last.
BucketBins(rows, b) == ResampleSum(VolPoints(rows, b))

\* The seconds the bins are of.
BinLabels(bins) == {bins[k].t : k \in 1..Len(bins)}

\* The seconds that are a label of the bins of some bucket.
BinSeconds(rows) == UNION {BinLabels(BucketBins(rows, b)) : b \in Range(ChartBuckets)}

\* The column of bucket b after unstack("bucket"): a point for every one of
\* the labels, the seconds of the union, NaN where the bucket has no bin of
\* that second; a bucket without any row gets a column of 0.0.
UnstackColumn(rows, b, labels) ==
    LET bins == BucketBins(rows, b)
    IN [k \in 1..Len(labels) |->
          IF bins = <<>> THEN [t |-> labels[k], v |-> 0]
          ELSE IF \E j \in 1..Len(bins) : bins[j].t = labels[k]
          THEN bins[CHOOSE j \in 1..Len(bins) : bins[j].t = labels[k]]
          ELSE [t |-> labels[k]]]

\* TradesApp.update_volume_over_time: the points given to the three lines.
update_volume_over_time(dfv, old) ==
    IF ~MATPLOTLIB_OK THEN old
    ELSE IF Empty(dfv) \/ ~({"TimeDT", "qty", "exec price", "nombre"} \subseteq Range(dfv.columns))
    THEN [b \in Range(ChartBuckets) |-> <<>>]
    ELSE LET rows   == VolumeRows(dfv.rows)
             labels == SortedSeconds(BinSeconds(rows))
         IN [b \in Range(ChartBuckets) |->
               cumsum(reindex(UnstackColumn(rows, b, labels), 0))]

\* The columns of the main table.
DISPLAY_COLS == <<"Time", "nombre", "Exchange", "counterparty", "ISIN", "b/s",
                  "qty", "exec price", "PnL", "inc_t_s">>

NoKpis == [total |-> 0, n_total |-> 0, pos_sum |-> 0, n_pos |-> 0,
           neg_sum |-> 0, n_neg |-> 0, volume |-> 0]

RECURSIVE SumAbs(_, _)
SumAbs(rows, col) ==
    IF rows = <<>> THEN 0 ELSE Abs(Head(rows)[col]) + SumAbs(Tail(rows), col)

\* The KPI labels update_table sets for a table that has rows.
Kpis(dfv) ==
    LET pnl == IF HasCol(dfv, "PnL") THEN dfv.rows ELSE <<>>
        pos == SelectSeq(pnl, LAMBDA r : r["PnL"] > 0)
        neg == SelectSeq(pnl, LAMBDA r : r["PnL"] < 0)
    IN [total   |-> SumOver(pnl, "PnL"), n_total |-> Len(pnl),
        pos_sum |-> SumOver(pos, "PnL"), n_pos   |-> Len(pos),
        neg_sum |-> SumOver(neg, "PnL"), n_neg   |-> Len(neg),
        volume  |-> IF HasCol(dfv, "qty") THEN SumAbs(dfv.rows, "qty") ELSE 0]

\* TradesApp.update_table: the rows of the tree and the KPIs.  The tree is
\* emptied first; dfv[DISPLAY_COLS] raises a KeyError on a table that lacks
\* one of the columns, and the tree stays empty and the KPIs as they were.
update_table(dfv, old) ==
    IF Empty(dfv) THEN [rows |-> <<>>, kpis |-> NoKpis, ok |-> TRUE]
    ELSE IF ~(Range(DISPLAY_COLS) \subseteq Range(dfv.columns))
    THEN [rows |-> <<>>, kpis |-> old.kpis, ok |-> FALSE]
    ELSE [rows |-> [i \in 1..Len(dfv.rows) |->
                      [c \in Range(DISPLAY_COLS) |-> dfv.rows[i][c]]],
          kpis |-> Kpis(dfv), ok |-> TRUE]

\* The views before the first update.
NoViews == [table  |-> [rows |-> <<>>, kpis |-> NoKpis, ok |-> TRUE],
            pnl    |-> <<>>,
            trades |-> <<>>,
            volume |-> [b \in Range(ChartBuckets) |-> <<>>]]

\* TradesApp.update_all_views: the four updates, one after the other, each
\* inside its own try.
update_all_views(dfv, old) ==
    [table  |-> update_table(dfv, old.table),
     pnl    |-> update_cumulative_pnl(dfv, old.pnl),
     trades |-> update_trades_over_time(dfv, old.trades),
     volume |-> update_volume_over_time(dfv, old.volume)]

----------------------------------------------------------------------------
(* Tk's `after` timers and the Debouncer.  A timer is                      *)
(*   [id, ms : the delay it was armed with, left : what is left of it,     *)
(*    cb : the callback, with the debounce key and the number of the       *)
(*    schedule call that armed it ("" and 0 for a direct self.after)].     *)
(* Tk never hands out an id twice; the model hands out the smallest id     *)
(* that no pending timer and no stored handle has, which no holder of an   *)
(* id can tell apart.                                                      *)

DebounceKeys == {"filters", "resize"}

HandleIds(hs) == {hs[k] : k \in DOMAIN hs}

FreshId(q, hs) ==
    CHOOSE n \in 0..(Cardinality(q) + Cardinality(DOMAIN hs)) :
        /\ n \notin {t.id : t \in q} \cup HandleIds(hs)
        /\ \A m \in 0..(n - 1) : m \in {t.id : t \in q} \cup HandleIds(hs)

Callback(key, func, arg, n) == [key |-> key, func |-> func, arg |-> arg, n |-> n]

\* tk.after(ms, cb): the queue with the new timer, whose id is id.
TkAfter(q, id, ms, cb) == q \cup {[id |-> id, ms |-> ms, left |-> ms, cb |-> cb]}

\* tk.after_cancel(id): a no-op when no pending timer has the id.
TkAfterCancel(q, id) == {t \in q : t.id # id}

\* Debouncer.schedule without the cancellation of the pending timer.
schedule_no_cancel(q, hs, key, delay_ms, cb) ==
    LET id == FreshId(q, hs)
    IN [after_q |-> TkAfter(q, id, delay_ms, cb),
        handles |-> [k \in DOMAIN hs \cup {key} |-> IF k = key THEN id ELSE hs[k]]]

\* A schedule that lets a pending timer of the key stand and drops the call.
schedule_keep_pending(q, hs, key, delay_ms, cb) ==
    IF \E t \in q : t.cb.key = key
    THEN [after_q |-> q, handles |-> hs]
    ELSE schedule_no_cancel(q, hs, key, delay_ms, cb)

\* A schedule that gives up, arming nothing, when the handle stored under
\* the key is of a timer that is no longer pending.
schedule_unless_stale(q, hs, key, delay_ms, cb) ==
    IF key \in DOMAIN hs /\ ~\E t \in q : t.id = hs[key]
    THEN [after_q |-> q, handles |-> hs]
    ELSE schedule_no_cancel(IF key \in DOMAIN hs THEN TkAfterCancel(q, hs[key]) ELSE q,
                            [k \in DOMAIN hs \ {key} |-> hs[k]], key, delay_ms, cb)

\* Debouncer.schedule(key, delay_ms, func, *args): the timer queue and
\* _handles after the call.
schedule(q, hs, key, delay_ms, cb) ==
    LET q1 == IF key \in DOMAIN hs THEN TkAfterCancel(q, hs[key]) ELSE q
        id == FreshId(q1, [k \in DOMAIN hs \ {key} |-> hs[k]])
    IN [after_q |-> TkAfter(q1, id, delay_ms, cb),
        handles |-> [k \in DOMAIN hs \cup {key} |-> IF k = key THEN id ELSE hs[k]]]

Pending(key) == \E t \in after_q : t.cb.key = key

----------------------------------------------------------------------------
(* The debouncer on its own: schedule calls with any key, delay and        *)
(* action, time passing, Tk running the timers that are due.  calls and    *)
(* invoked are observers: per key, the last schedule call and the last     *)
(* invocation.                                                             *)

\* Delays of the harness, in ticks of the harness's clock.
Delays == {1, 2}

\* The actions a caller debounces: a function and its argument.
Actions == {<<"apply_dynamic_filters", 0>>, <<"render", 1>>}

NoCall == [n |-> 0, delay |-> 0, func |-> "", arg |-> 0, age |-> 0, bursts |-> 0]

NoInvocation == [count |-> 0, cb |-> Callback("", "", 0, 0), of |-> NoCall]

TotalCalls ==
    LET RECURSIVE S(_)
        S(K) == IF K = {} THEN 0
                ELSE LET k == CHOOSE x \in K : TRUE IN calls[k].n + S(K \ {k})
    IN S(DebounceKeys)

\* A caller runs debouncer.schedule(key, delay, func, arg).
DSchedule(key, delay, func, arg) ==
    /\ TotalCalls < MaxCalls
    /\ LET n   == calls[key].n + 1
           res == schedule(after_q, handles, key, delay, Callback(key, func, arg, n))
       IN /\ after_q' = res.after_q
          /\ handles' = res.handles
          /\ calls' = [calls EXCEPT ![key] =
                          [n |-> n, delay |-> delay, func |-> func, arg |-> arg, age |-> 0,
                           bursts |-> IF Pending(key) THEN @.bursts ELSE @.bursts + 1]]
    /\ UNCHANGED <<invoked, last, appVars>>

MaxDelay == CHOOSE d \in Delays : \A e \in Delays : e <= d

\* One tick of time passes.
Tick ==
    /\ after_q' = {[t EXCEPT !.left = IF @ > 0 THEN @ - 1 ELSE 0] : t \in after_q}
    /\ calls' = [k \in DebounceKeys |->
                    [calls[k] EXCEPT !.age = IF @ < MaxDelay THEN @ + 1 ELSE @]]
    /\ UNCHANGED <<handles, invoked, last, appVars>>

\* Tk runs a timer that is due: the timer leaves the queue (its id stays in
\* _handles) and the debounced action is invoked.
DFire ==
    \E t \in after_q :
        /\ t.left = 0
        /\ after_q' = after_q \ {t}
        /\ invoked' = [invoked EXCEPT ![t.cb.key] =
                          [count |-> @.count + 1, cb |-> t.cb, of |-> calls[t.cb.key]]]
        /\ UNCHANGED <<handles, calls, last, appVars>>

InitDebounce ==
    /\ after_q = {}
    /\ handles = <<>>
    /\ calls = [k \in DebounceKeys |-> NoCall]
    /\ invoked = [k \in DebounceKeys |-> NoInvocation]
    /\ last = "init"
    /\ df_all = Frame(<<>>)
    /\ df_filtered = Frame(<<>>)
    /\ dynamic_filters = build_dynamic_filters(Frame(<<>>), <<>>)
    /\ sort_state_main = <<>>
    /\ running = TRUE
    /\ refresh_ms = IntVarHolding(DefaultRefreshMs)
    /\ summaries = NoSummaries
    /\ views = NoViews

NextDebounce ==
    \/ \E key \in DebounceKeys, delay \in Delays, a \in Actions :
          DSchedule(key, delay, a[1], a[2])
    \/ Tick
    \/ DFire

SpecDebounce == InitDebounce /\ [][NextDebounce]_vars

\* Time passes and Tk's event loop runs the timers that are due.
FairDebounce == SpecDebounce /\ WF_vars(Tick) /\ WF_vars(DFire)

----------------------------------------------------------------------------
\* C1: under every key at most one timer is armed at any time, and a call
\* that Tk invokes is the latest schedule call made under its key: the action
\* of a call superseded while its timer was pending is never invoked.
C1_OneTimerPerKey ==
    \A k \in DebounceKeys :
        /\ Cardinality({t \in after_q : t.cb.key = k}) <= 1
        /\ \A t \in after_q : t.cb.key = k => t.cb.n = calls[k].n /\ t.id = handles[k]
        /\ invoked[k].count > 0 => invoked[k].cb.n = invoked[k].of.n

\* A call was superseded while pending and the call that replaced it ran.
C1_Witness ==
    \E k \in DebounceKeys :
        /\ calls[k].n >= 2
        /\ calls[k].bursts = 1
        /\ invoked[k].count = 1
        /\ invoked[k].cb.n = calls[k].n

\* Per key: each burst of schedule calls has been run once or is pending,
\* and the action that ran was the last call's function and arguments, not
\* before the last call's delay had passed.
C2_Safety ==
    \A k \in DebounceKeys :
        /\ invoked[k].count + (IF Pending(k) THEN 1 ELSE 0) = calls[k].bursts
        /\ invoked[k].count > 0 =>
              /\ invoked[k].cb.func = invoked[k].of.func
              /\ invoked[k].cb.arg = invoked[k].of.arg
              /\ invoked[k].of.age >= invoked[k].of.delay

\* C2: a burst of schedule calls under one key, each made before the timer
\* of the one before fired, leads to exactly one invocation: it is the last
\* call's function and arguments that run, not before the last call's delay
\* has passed, and a pending timer does fire.
C2_BurstRunsOnce ==
    /\ []C2_Safety
    /\ \A k \in DebounceKeys : Pending(k) ~> ~Pending(k)

\* A burst of two calls with different actions and delays has run.
C2_Witness ==
    /\ calls["filters"].n = 2
    /\ calls["filters"].bursts = 1
    /\ invoked["filters"].count = 1
    /\ invoked["filters"].cb.func = "render"
    /\ invoked["filters"].cb.arg = 1
    /\ invoked["filters"].of.delay = 2

----------------------------------------------------------------------------
(* Trade records and snapshots the specifications feed the program with.   *)
(* Times are seconds since midnight; R5 has no exchange.                   *)
(* No two groups of these records have the same total, so the order of    *)
(* the summaries of the snapshots made of them is fixed; the summary       *)
(* harness has the records with equal totals.                             *)

R1 == MkRow(36000, "TSLA", "A", "H", "DE0001", "buy", 50, 3, 10, 0)
R2 == MkRow(36001, "NVDA", "B", "J", "DE0002", "sell", 100, 2, -5, 0)
R3 == MkRow(36002, "TSLA", "A", "H", "DE0001", "buy", 200, 1, 20, 2)
R4 == MkRow(36002, "MSFT", "C", "J", "DE0003", "sell", 100, 2, 0, 0)
R5 == MkRow(36003, "MSFT", NA, "J", "DE0003", "buy", 200, 1, -6, 1)

\* The records the enumerated snapshots are made of.
RowPool == {R1, R2, R5}

\* Exchanges [A, B, A, C] with quantities [50, 100, 200, 100].
ExampleRows == <<R1, R2, R3, R4>>

\* A table a provider can return that lacks the trade columns.
MalformedFrame ==
    [columns |-> <<"nombre", "Quantity">>, numeric |-> {"Quantity"},
     index |-> RangeIndex(1),
     rows |-> <<("nombre" :> "TSLA") @@ ("Quantity" :> 50)>>]

Snapshots ==
    {Frame(s) : s \in SeqsUpTo(RowPool, MaxRows)} \cup {Frame(ExampleRows), MalformedFrame}

\* What a user types into a min or max entry.
Text100 == <<"1", "0", "0">>
Text99c5 == <<"9", "9", ",", "5">>
TextAbc == <<" ", "a", "b", "c">>

Text2 == <<"2">>

\* The texts tried in the min entry of qty, in its max entry, and in the
\* max entry of "exec price".
MinTexts == {NoText, Text100, TextAbc}
MaxTexts == {NoText, Text100, Text99c5}
PriceTexts == {NoText, Text2}

\* The position of col's entry in the filters.
EntryOf(filters, col) == CHOOSE k \in 1..Len(filters) : filters[k].col = col

HasEntry(filters, col) == \E k \in 1..Len(filters) : filters[k].col = col

\* The user changes the selection of col's listbox to the positions S.
SelectIn(filters, col, S) == [filters EXCEPT ![EntryOf(filters, col)].sel = S]

\* The user leaves text in col's min or max entry.
TypeIn(filters, col, which, text) ==
    IF which = "min" THEN [filters EXCEPT ![EntryOf(filters, col)].min_var = text]
    ELSE [filters EXCEPT ![EntryOf(filters, col)].max_var = text]

----------------------------------------------------------------------------
(* The filter engine on its own: apply_dynamic_filters and                 *)
(* clear_all_dynamic_filters called on any snapshot as df_all, with any    *)
(* selection in the Exchange listbox and texts in the entries of qty and   *)
(* "exec price", the filters having been built from a snapshot that holds  *)
(* every record.                                                           *)

PoolFrame == Frame(<<R1, R2, R3, R4, R5>>)

timerVars == <<after_q, handles, invoked, calls>>

\* The filter states a user can leave the widgets in.
FilterStates ==
    LET built == build_dynamic_filters(PoolFrame, <<>>)
        n     == Len(built[EntryOf(built, "Exchange")].values)
    IN {TypeIn(TypeIn(TypeIn(SelectIn(built, "Exchange", S), "qty", "min", lo),
                      "qty", "max", hi), "exec price", "max", pr) :
           S \in SUBSET (1..n), lo \in MinTexts, hi \in MaxTexts, pr \in PriceTexts}

InitFilter ==
    /\ df_all \in Snapshots
    /\ dynamic_filters \in FilterStates
    /\ df_filtered = df_all
    /\ last = "init"
    /\ sort_state_main = <<>>
    /\ running = TRUE
    /\ refresh_ms = IntVarHolding(DefaultRefreshMs)
    /\ summaries = NoSummaries
    /\ views = NoViews
    /\ after_q = {}
    /\ handles = <<>>
    /\ calls = [k \in DebounceKeys |-> NoCall]
    /\ invoked = [k \in DebounceKeys |-> NoInvocation]

\* A call of apply_dynamic_filters().
FApply ==
    LET res == apply_dynamic_filters(df_all, df_filtered, dynamic_filters)
    IN /\ df_all' = res.df_all
       /\ df_filtered' = res.df_filtered
       /\ last' = IF ~res.ok THEN "apply_failed"
                  ELSE IF last \in {"clear", "clear_apply"} THEN "clear_apply" ELSE "apply"
       /\ views' = IF res.ok THEN update_all_views(res.df_filtered, views) ELSE views
       /\ UNCHANGED <<dynamic_filters, sort_state_main, running, refresh_ms, summaries, timerVars>>

\* A call of clear_all_dynamic_filters().
FClear ==
    LET res == clear_all_dynamic_filters(df_all, dynamic_filters)
    IN /\ dynamic_filters' = res.dynamic_filters
       /\ df_filtered' = res.df_filtered
       /\ last' = "clear"
       /\ views' = update_all_views(res.df_filtered, views)
       /\ UNCHANGED <<df_all, sort_state_main, running, refresh_ms, summaries, timerVars>>

NextFilter == FApply \/ FClear

SpecFilter == InitFilter /\ [][NextFilter]_vars

----------------------------------------------------------------------------
(* What the filters ask of a row, read off the widgets.                    *)

AfterApply == {"apply", "apply_failed", "clear_apply"}

Applied == last \in {"apply", "clear_apply"}

\* The values highlighted in a listbox.
Selected(f) == {f.values[i] : i \in f.sel}

\* The bound a text of the harness stands for: num / den, or not set.
TextBound(t) ==
    CASE t = Text100  -> [set |-> TRUE, num |-> 100, den |-> 1]
      [] t = Text99c5 -> [set |-> TRUE, num |-> 995, den |-> 10]
      [] t = Text2    -> [set |-> TRUE, num |-> 2, den |-> 1]
      [] OTHER        -> [set |-> FALSE, num |-> 0, den |-> 1]

PassesCat(f, r) ==
    \/ f.sel = {}
    \/ AllSentinel \in Selected(f)
    \/ StrOf(r[f.col]) \in Selected(f)

PassesNum(f, r) ==
    LET lo == TextBound(f.min_var)
        hi == TextBound(f.max_var)
    IN /\ lo.set => r[f.col] * lo.den >= lo.num
       /\ hi.set => r[f.col] * hi.den <= hi.num

Passes(f, r) == IF f.type = "cat" THEN PassesCat(f, r) ELSE PassesNum(f, r)

\* The rows of df_all that pass every filter but the k-th.
PassingOthers(k) ==
    SelectSeq(df_all.rows,
              LAMBDA r : \A j \in 1..Len(dynamic_filters) :
                             j # k => Passes(dynamic_filters[j], r))

\* What the loop of apply_dynamic_filters asks: a listbox filters by the
\* values selected besides "(All)", if there are any.
Keeps(f, r) ==
    IF f.type = "cat"
    THEN LET chosen == Selected(f) \ {AllSentinel}
         IN chosen = {} \/ StrOf(r[f.col]) \in chosen
    ELSE PassesNum(f, r)

\* The rows of df_all that every filter but the k-th keeps.
KeptByOthers(k) ==
    SelectSeq(df_all.rows,
              LAMBDA r : \A j \in 1..Len(dynamic_filters) :
                             j # k => Keeps(dynamic_filters[j], r))

\* Every filter but those of the given columns is at its default.
DefaultsExcept(cols) ==
    \A k \in 1..Len(dynamic_filters) :
        LET f == dynamic_filters[k]
        IN f.col \notin cols =>
               IF f.type = "cat" THEN Selected(f) = {AllSentinel}
               ELSE f.min_var = NoText /\ f.max_var = NoText

\* The cells of a column, row by row (NA where a row has no such column).
ColumnOf(rows, col) ==
    [i \in 1..Len(rows) |-> IF col \in DOMAIN rows[i] THEN rows[i][col] ELSE NA]

\* C3: after apply_dynamic_filters the rows of df_filtered are rows of
\* df_all, none more often than there and in the order they have there, the
\* index of df_filtered is 0, 1, 2, ...; on an empty snapshot the call does
\* not fail and df_filtered is empty.
C3_FilteredIsSubsequence ==
    /\ Applied =>
           /\ IsSubseq(df_filtered.rows, df_all.rows)
           /\ df_filtered.index = RangeIndex(Len(df_filtered.rows))
    /\ (last \in AfterApply /\ Empty(df_all)) =>
           last # "apply_failed" /\ Empty(df_filtered)

\* A snapshot of three rows filtered down to its first and its third row.
C3_Witness ==
    /\ last = "apply"
    /\ Len(df_all.rows) = 3
    /\ df_filtered.rows = <<df_all.rows[1], df_all.rows[3]>>
    /\ df_all.rows[2] # df_all.rows[1]
    /\ df_all.rows[2] # df_all.rows[3]

\* An empty snapshot filtered with an active filter.
C3_WitnessEmpty ==
    /\ last = "apply"
    /\ Empty(df_all)
    /\ ~DefaultsExcept({})

\* C4: a categorical filter whose selection is empty or holds "(All)", alone
\* or with other values, filters nothing: df_filtered holds every row of
\* df_all that passes the other filters.  (The loop drops "(All)" from the
\* selection and filters by what is left, so this fails for "(All)" selected
\* together with another value.)
C4_AllSelectsEverything ==
    Applied =>
        \A k \in 1..Len(dynamic_filters) :
            LET f == dynamic_filters[k]
            IN (f.type = "cat" /\ (f.sel = {} \/ AllSentinel \in Selected(f)))
                   => df_filtered.rows = PassingOthers(k)

\* What does hold: an empty selection, or "(All)" alone, filters nothing.
C4_AllAloneSelectsEverything ==
    Applied =>
        \A k \in 1..Len(dynamic_filters) :
            LET f == dynamic_filters[k]
            IN (f.type = "cat" /\ (f.sel = {} \/ Selected(f) = {AllSentinel}))
                   => df_filtered.rows = KeptByOthers(k)

\* "(All)" selected together with "B": the rows of exchange A are dropped.
C4_Failing ==
    /\ last = "apply"
    /\ Selected(dynamic_filters[EntryOf(dynamic_filters, "Exchange")]) = {AllSentinel, "B"}
    /\ DefaultsExcept({"Exchange"})
    /\ ColumnOf(df_all.rows, "Exchange") = <<"A", "B", NA>>
    /\ ColumnOf(df_filtered.rows, "Exchange") = <<"B">>

C5_Witness ==
    /\ last = "apply"
    /\ ColumnOf(df_all.rows, "Exchange") = <<"A", "B", "A", "C">>
    /\ Selected(dynamic_filters[EntryOf(dynamic_filters, "Exchange")]) = {"A"}
    /\ DefaultsExcept({"Exchange"})
    /\ ColumnOf(df_filtered.rows, "Exchange") = <<"A", "A">>

C6_NumericBoundsInclusive ==
    Applied =>
        /\ df_filtered.rows = KeptByOthers(0)
        /\ LET q == dynamic_filters[EntryOf(dynamic_filters, "qty")]
           IN (/\ ColumnOf(df_all.rows, "qty") = <<50, 100, 200>>
               /\ q.min_var = Text100 /\ q.max_var = NoText
               /\ DefaultsExcept({"qty"}))
                  => ColumnOf(df_filtered.rows, "qty") = <<100, 200>>

\* min = 100 typed on the quantities [50, 100, 200].
C6_Witness ==
    /\ last = "apply"
    /\ ColumnOf(df_all.rows, "qty") = <<50, 100, 200>>
    /\ dynamic_filters[EntryOf(dynamic_filters, "qty")].min_var = Text100
    /\ dynamic_filters[EntryOf(dynamic_filters, "qty")].max_var = NoText
    /\ DefaultsExcept({"qty"})
    /\ ColumnOf(df_filtered.rows, "qty") = <<100, 200>>

\* A text that is no number as min, "99,5" as max, a price bound and a
\* selection together.
C6_WitnessCombined ==
    /\ last = "apply"
    /\ dynamic_filters[EntryOf(dynamic_filters, "qty")].min_var = TextAbc
    /\ dynamic_filters[EntryOf(dynamic_filters, "qty")].max_var = Text99c5
    /\ dynamic_filters[EntryOf(dynamic_filters, "exec price")].max_var = Text2
    /\ Selected(dynamic_filters[EntryOf(dynamic_filters, "Exchange")]) = {"A", "B"}
    /\ ColumnOf(df_all.rows, "qty") = <<50, 100, 50>>
    /\ ColumnOf(df_all.rows, "exec price") = <<3, 2, 3>>
    /\ df_filtered.rows = <<>>

\* C7: clear_all_dynamic_filters leaves "(All)" alone selected in every
\* listbox and every min and max entry empty, and the apply_dynamic_filters
\* that follows makes df_filtered the whole of df_all, rows and order.
C7_ClearThenApplyIsIdentity ==
    /\ last = "clear" =>
           \A k \in 1..Len(dynamic_filters) :
               LET f == dynamic_filters[k]
               IN IF f.type = "cat" THEN Selected(f) = {AllSentinel}
                  ELSE f.min_var = NoText /\ f.max_var = NoText
    /\ last = "clear_apply" =>
           /\ df_filtered.rows = df_all.rows
           /\ df_filtered.columns = df_all.columns

\* A snapshot of three rows, cleared and applied.
C7_Witness ==
    /\ last = "clear_apply"
    /\ Len(df_all.rows) = 3
    /\ df_filtered.rows = df_all.rows
    /\ DefaultsExcept({})

\* C8: a call of apply_dynamic_filters, whether it gets through or raises,
\* leaves df_all as it was.
C8_ApplyLeavesSnapshot == [][last' \in AfterApply => df_all' = df_all]_vars

\* A call that raised on a table without the filtered column.
C8_Witness ==
    /\ last = "apply_failed"
    /\ df_all = MalformedFrame

\* A call that got through and dropped rows.
C8_WitnessNarrowed ==
    /\ last = "apply"
    /\ Len(df_all.rows) = 3
    /\ Len(df_filtered.rows) = 1

----------------------------------------------------------------------------
(* The application: the window after its constructor, the user at the      *)
(* filter widgets, the headings and the buttons, and Tk running the        *)
(* timers.  A pending timer may fire at any moment.                        *)

\* The interval as it is read, without the limits.
unclamped_refresh_ms(var) == IF var.ok THEN var.value ELSE FallbackRefreshMs

\* TradesApp._safe_refresh_ms: the clamped integer of refresh_ms, the
\* fallback clamped when reading refresh_ms raises.
safe_refresh_ms(var) ==
    LET ms     == IF var.ok THEN var.value ELSE FallbackRefreshMs
        capped == IF ms < MaxRefreshMs THEN ms ELSE MaxRefreshMs
    IN IF capped > MinRefreshMs THEN capped ELSE MinRefreshMs

RefreshCb == Callback("", "refresh_data", 0, 0)

ApplyCb == Callback("filters", "apply_dynamic_filters", 0, 0)

\* self.after(self._safe_refresh_ms(), self.refresh_data)
ArmRefresh(q, hs, ms) == TkAfter(q, FreshId(q, hs), safe_refresh_ms(ms), RefreshCb)

\* A table whose index is not 0, 1, 2, ...
GappedFrame == [Frame(<<R2, R1, R5>>) EXCEPT !.index = <<4, 2, 7>>]

\* A table that has every column but Exchange.
NoExchangeCols == SelectSeq(AllCols, LAMBDA c : c # "Exchange")

NoExchangeFrame ==
    [columns |-> NoExchangeCols, numeric |-> NumericCols, index |-> RangeIndex(2),
     rows |-> <<[c \in Range(NoExchangeCols) |-> R1[c]],
                [c \in Range(NoExchangeCols) |-> R2[c]]>>]

\* The tables the provider hands to the constructor.
InitFeed == {Frame(ExampleRows), GappedFrame}

\* What provider.fetch() returns on a refresh tick, when it returns.
AppFeed == {Frame(ExampleRows), GappedFrame, Frame(<<>>), MalformedFrame,
            NoExchangeFrame}

WellFormed(df) == Range(df.columns) = Range(AllCols)

\* The selections the user makes in the Exchange listbox.
AppSelections == {{1}, {2}}

\* The texts the user leaves in the min entry of qty.
AppTexts == {NoText, Text100}

\* The headings the user clicks.
SortCols == {"qty"}

Init ==
    \E df \in InitFeed :
        LET filters == build_dynamic_filters(df, <<>>)
            first   == apply_dynamic_filters(df, df, filters)
        IN /\ df_all = first.df_all
           /\ df_filtered = first.df_filtered
           /\ dynamic_filters = filters
           /\ summaries \in update_global_summaries(df, first.df_filtered, NoSummaries)
           /\ views = IF first.ok THEN update_all_views(first.df_filtered, NoViews) ELSE NoViews
           /\ sort_state_main = <<>>
           /\ running = TRUE
           /\ refresh_ms = IntVarHolding(DefaultRefreshMs)
           /\ after_q = ArmRefresh({}, <<>>, IntVarHolding(DefaultRefreshMs))
           /\ handles = <<>>
           /\ last = "init"
           /\ calls = [k \in DebounceKeys |-> NoCall]
           /\ invoked = [k \in DebounceKeys |-> NoInvocation]

\* The handlers bound to the filter widgets: the debounced apply.
ScheduleApply ==
    LET res == schedule(after_q, handles, "filters", FilterDebounceMs, ApplyCb)
    IN /\ after_q' = res.after_q
       /\ handles' = res.handles

\* <<ListboxSelect>>: the user changes the selection of the Exchange listbox.
OnListboxSelect(S) ==
    /\ HasEntry(dynamic_filters, "Exchange")
    /\ S \subseteq 1..Len(dynamic_filters[EntryOf(dynamic_filters, "Exchange")].values)
    /\ dynamic_filters' = SelectIn(dynamic_filters, "Exchange", S)
    /\ ScheduleApply
    /\ last' = "edit"
    /\ UNCHANGED <<df_all, df_filtered, sort_state_main, running, refresh_ms, summaries,
                   views, invoked, calls>>

\* <KeyRelease> in the min or the max entry of qty.
OnKeyRelease(which, text) ==
    /\ HasEntry(dynamic_filters, "qty")
    /\ dynamic_filters' = TypeIn(dynamic_filters, "qty", which, text)
    /\ ScheduleApply
    /\ last' = "edit"
    /\ UNCHANGED <<df_all, df_filtered, sort_state_main, running, refresh_ms, summaries,
                   views, invoked, calls>>

\* <FocusOut> of a min or max entry.
OnFocusOut ==
    /\ HasEntry(dynamic_filters, "qty")
    /\ ScheduleApply
    /\ last' = "edit"
    /\ UNCHANGED <<df_all, df_filtered, dynamic_filters, sort_state_main, running,
                   refresh_ms, summaries, views, invoked, calls>>

\* Tk runs the debounced apply_dynamic_filters.
FiltersTimerFires ==
    \E t \in after_q :
        /\ t.cb.func = "apply_dynamic_filters"
        /\ LET res == apply_dynamic_filters(df_all, df_filtered, dynamic_filters)
           IN /\ df_all' = res.df_all
              /\ df_filtered' = res.df_filtered
              /\ last' = IF res.ok THEN "apply" ELSE "apply_failed"
              /\ views' = IF res.ok THEN update_all_views(res.df_filtered, views) ELSE views
        /\ after_q' = after_q \ {t}
        /\ UNCHANGED <<dynamic_filters, sort_state_main, running, refresh_ms, summaries,
                       handles, invoked, calls>>

\* The "Clear All Filters" button.
ClearAllFilters ==
    LET res == clear_all_dynamic_filters(df_all, dynamic_filters)
    IN /\ dynamic_filters' = res.dynamic_filters
       /\ df_filtered' = res.df_filtered
       /\ last' = "clear"
       /\ views' = update_all_views(res.df_filtered, views)
       /\ UNCHANGED <<df_all, sort_state_main, running, refresh_ms, summaries, timerVars>>

\* A click on a heading of the main table.
SortMainBy(col) ==
    LET res == sort_main_by(df_filtered, sort_state_main, col)
    IN /\ sort_state_main' = res.sort_state_main
       /\ df_filtered' = res.df_filtered
       /\ last' = IF res.ok THEN "sort" ELSE "sort_failed"
       /\ views' = IF res.ok THEN update_all_views(res.df_filtered, views) ELSE views
       /\ UNCHANGED <<df_all, dynamic_filters, running, refresh_ms, summaries, timerVars>>

\* The Freeze / Resume button.
ToggleRun ==
    /\ running' = ~running
    /\ last' = "toggle"
    /\ UNCHANGED <<df_all, df_filtered, dynamic_filters, sort_state_main, refresh_ms,
                   summaries, views, timerVars>>

\* Tk runs refresh_data and provider.fetch() raises: the except clause logs,
\* the finally clause arms the next tick.
RefreshRaises ==
    \E t \in after_q :
        /\ t.cb.func = "refresh_data"
        /\ running
        /\ after_q' = ArmRefresh(after_q \ {t}, handles, refresh_ms)
        /\ last' = "refresh_raised"
        /\ UNCHANGED <<df_all, df_filtered, dynamic_filters, sort_state_main, running,
                       refresh_ms, summaries, views, handles, invoked, calls>>

\* Tk runs refresh_data and provider.fetch() returns a table: it becomes
\* df_all, the filters are applied, the summaries updated, the next tick armed.
RefreshFetches(table) ==
    \E t \in after_q :
        /\ t.cb.func = "refresh_data"
        /\ running
        /\ LET res == apply_dynamic_filters(table, df_filtered, dynamic_filters)
           IN /\ df_all' = res.df_all
              /\ df_filtered' = res.df_filtered
              /\ summaries' \in update_global_summaries(res.df_all, res.df_filtered, summaries)
              /\ views' = IF res.ok THEN update_all_views(res.df_filtered, views) ELSE views
        /\ after_q' = ArmRefresh(after_q \ {t}, handles, refresh_ms)
        /\ last' = IF WellFormed(table) THEN "refresh_ok" ELSE "refresh_malformed"
        /\ UNCHANGED <<dynamic_filters, sort_state_main, running, refresh_ms, handles,
                       invoked, calls>>

\* A refresh_data that returns at once while the app is frozen, before the
\* try ... finally that arms the next tick.
RefreshFrozenReturns ==
    \E t \in after_q :
        /\ t.cb.func = "refresh_data"
        /\ ~running
        /\ after_q' = after_q \ {t}
        /\ last' = "refresh_frozen"
        /\ UNCHANGED <<df_all, df_filtered, dynamic_filters, sort_state_main, running,
                       refresh_ms, summaries, views, handles, invoked, calls>>

\* A refresh_data that does not look at running: it fetches (an empty
\* table) while the app is frozen.
RefreshFrozenFetches ==
    \E t \in after_q :
        /\ t.cb.func = "refresh_data"
        /\ ~running
        /\ LET res == apply_dynamic_filters(Frame(<<>>), df_filtered, dynamic_filters)
           IN /\ df_all' = res.df_all
              /\ df_filtered' = res.df_filtered
              /\ summaries' \in update_global_summaries(res.df_all, res.df_filtered, summaries)
              /\ views' = IF res.ok THEN update_all_views(res.df_filtered, views) ELSE views
        /\ after_q' = ArmRefresh(after_q \ {t}, handles, refresh_ms)
        /\ last' = "refresh_frozen"
        /\ UNCHANGED <<dynamic_filters, sort_state_main, running, refresh_ms, handles,
                       invoked, calls>>

\* Tk runs refresh_data while the app is frozen: only the next tick is armed.
RefreshFrozen ==
    \E t \in after_q :
        /\ t.cb.func = "refresh_data"
        /\ ~running
        /\ after_q' = ArmRefresh(after_q \ {t}, handles, refresh_ms)
        /\ last' = "refresh_frozen"
        /\ UNCHANGED <<df_all, df_filtered, dynamic_filters, sort_state_main, running,
                       refresh_ms, summaries, views, handles, invoked, calls>>

Next ==
    \/ \E S \in AppSelections : OnListboxSelect(S)
    \/ \E text \in AppTexts : OnKeyRelease("min", text)
    \/ OnFocusOut
    \/ FiltersTimerFires
    \/ ClearAllFilters
    \/ \E col \in SortCols : SortMainBy(col)
    \/ ToggleRun
    \/ RefreshRaises
    \/ \E table \in AppFeed : RefreshFetches(table)
    \/ RefreshFrozen

Spec == Init /\ [][Next]_vars

----------------------------------------------------------------------------
\* The summaries are those of df_all, whenever df_all has the trade columns
\* the summaries are made of.
C9_SummariesOfSnapshot ==
    WellFormed(df_all) => summaries \in SummariesOf(df_all, NoSummaries)

\* C9: the three grouped summaries and the counterparty volume summary are
\* those computed from the whole of df_all: filter edits, debounced filter
\* applications, clear-all and sorts leave their rows alone, whatever the
\* filters and df_filtered are.
C9_SummariesFromSnapshot ==
    /\ []C9_SummariesOfSnapshot
    /\ [][last' \in {"edit", "apply", "apply_failed", "clear", "sort", "sort_failed"}
              => summaries' = summaries]_vars

\* The filters have narrowed df_filtered, the summaries are those of df_all
\* and not those of df_filtered.
C9_Witness ==
    /\ last = "apply"
    /\ WellFormed(df_all)
    /\ Len(df_filtered.rows) < Len(df_all.rows)
    /\ summaries.exch # <<>>
    /\ summaries \in SummariesOf(df_all, NoSummaries)
    /\ summaries \notin SummariesOf(df_filtered, NoSummaries)

\* One refresh timer is pending, armed with the clamped refresh interval.
RefreshArmed ==
    /\ Cardinality({t \in after_q : t.cb.func = "refresh_data"}) = 1
    /\ \A t \in after_q :
           t.cb.func = "refresh_data" => t.ms = safe_refresh_ms(refresh_ms)

\* C10: a refresh tick on which provider.fetch raises or returns a malformed
\* table ends with df_all as it was before the tick and with the next tick
\* armed at the normal interval, however many ticks failed before.  (The
\* tick assigns what fetch returned to df_all before anything looks at it, so
\* this fails for a malformed table.)
C10_FailedFetchKeepsSnapshot ==
    [][last' \in {"refresh_raised", "refresh_malformed"}
          => (df_all' = df_all /\ RefreshArmed')]_vars

\* What does hold: a fetch that raises leaves df_all alone, and after every
\* tick, failed or not, the next one is armed at the normal interval.
C10_RaisedFetchKeepsSnapshot ==
    [][/\ last' = "refresh_raised" => df_all' = df_all
       /\ last' \in {"refresh_raised", "refresh_malformed", "refresh_ok", "refresh_frozen"}
              => RefreshArmed']_vars

\* A tick on which fetch returned a table without the trade columns: the
\* table is df_all now, the summaries are still those of the snapshot before.
C10_Failing ==
    /\ last = "refresh_malformed"
    /\ df_all = MalformedFrame
    /\ summaries.exch # <<>>
    /\ RefreshArmed

----------------------------------------------------------------------------
(* The summaries on their own: update_global_summaries run on snapshots    *)
(* that have groups with equal totals, rows without exchange or            *)
(* counterparty, a lower-case instrument name, rows without volume, and    *)
(* on long snapshots with more instruments than the ISIN table shows.      *)

G1 == MkRow(36000, "TSLA", "B", "H", "DE0002", "buy", 50, 3, 10, 0)
G2 == MkRow(36005, "TSLA", "A", "J", "DE0001", "sell", 100, 2, -5, 5)
G3 == MkRow(36007, "TSLA", "A", "H", "DE0003", "buy", 200, 1, 20, 2)
G4 == MkRow(36007, "tsla", "C", "K", "DE0003", "sell", 100, 0, 10, 0)
G5 == MkRow(36010, "MSFT", NA, NA, "DE0001", "buy", 200, 1, 0, 3)
G6 == MkRow(36001, "NVDA", "B", "J", "DE0002", "sell", 100, 2, -5, 0)

\* A lower-case name with volume.
G7 == MkRow(36003, "nvda", "C", "K", "DE0002", "buy", 50, 2, 3, 1)

SummaryPool == {G1, G2, G3, G4, G5, G6, G7}

\* The PnL of the i-th row of a long snapshot: no two rows have the same.
LongPnl(i) == ((i * 7) % 53) - 20

\* n trades of n instruments.
LongRows(n) ==
    [i \in 1..n |-> MkRow(36000 + i, "MSFT", "A", "H", IsinCode(i), "buy", 1, 1,
                          LongPnl(i), 0)]

\* Two hundred trades of one instrument on one exchange, the first of them
\* the only one with a gain: 0.5 % of the trades.
OneGainRows ==
    [i \in 1..200 |-> MkRow(36000 + i, "MSFT", "A", "H", "DE0003", "buy", 1, 1,
                            IF i = 1 THEN 4 ELSE 0, 0)]

SummarySnapshots ==
    {Frame(s) : s \in SeqsUpTo(SummaryPool, MaxRows)}
        \cup {Frame(LongRows(n)) : n \in {IsinCap, IsinCap + 1, IsinCap + 2}}
        \cup {Frame(OneGainRows)}

InitSummary ==
    /\ df_all \in SummarySnapshots
    /\ df_filtered = df_all
    /\ dynamic_filters = <<>>
    /\ summaries = NoSummaries
    /\ views = NoViews
    /\ last = "init"
    /\ sort_state_main = <<>>
    /\ running = TRUE
    /\ refresh_ms = IntVarHolding(DefaultRefreshMs)
    /\ after_q = {}
    /\ handles = <<>>
    /\ calls = [k \in DebounceKeys |-> NoCall]
    /\ invoked = [k \in DebounceKeys |-> NoInvocation]

\* A call of update_global_summaries().
SUpdate ==
    /\ summaries' \in update_global_summaries(df_all, df_filtered, summaries)
    /\ last' = "summaries"
    /\ UNCHANGED <<df_all, df_filtered, dynamic_filters, sort_state_main, running,
                   refresh_ms, views, timerVars>>

NextSummary == SUpdate

SpecSummary == InitSummary /\ [][NextSummary]_vars

----------------------------------------------------------------------------
(* C11: the sub-views of one recompute. *)

\* The filters of the tick got through, so update_all_views was called.
FiltersGotThrough == FilteredFrame(df_all, dynamic_filters).ok

\* After the recompute of a tick the grouped summary of keycol, if it can be
\* computed from df_all, is the one its table shows.
SummaryUpdated(keycol, shown, cap) ==
    make_summary(df_all, keycol).ok
        => shown \in {HeadRows(g, cap) : g \in make_summary(df_all, keycol).outcomes}

\* Every sub-view that can be computed shows what is computed from the
\* current tables.
SubViewsUpdated ==
    /\ SummaryUpdated("Exchange", summaries.exch, Len(df_all.rows))
    /\ SummaryUpdated("ISIN", summaries.isin, IsinCap)
    /\ SummaryUpdated("nombre", summaries.nombre, Len(df_all.rows))
    /\ summaries.cp \in update_from_df(df_all)
    /\ FiltersGotThrough =>
          /\ update_table(df_filtered, views.table).ok
                => views.table = update_table(df_filtered, views.table)
          /\ views.pnl = update_cumulative_pnl(df_filtered, views.pnl)
          /\ views.trades = update_trades_over_time(df_filtered, views.trades)
          /\ views.volume = update_volume_over_time(df_filtered, views.volume)

\* A refresh tick has just fetched a table and recomputed the views.
AfterRecompute == last \in {"refresh_ok", "refresh_malformed"}

\* C11: after the recompute of a refresh tick every sub-view whose own
\* recompute does not fail has been updated, whichever other sub-view failed.
C11_FailureIsolated == AfterRecompute => SubViewsUpdated

\* What the code isolates: a failure of the row table leaves the three
\* charts updated, and the four summaries are updated together whenever the
\* three grouped ones can all be computed.
C11_FilteredViewsIsolated ==
    AfterRecompute =>
        /\ FiltersGotThrough =>
              /\ views.pnl = update_cumulative_pnl(df_filtered, views.pnl)
              /\ views.trades = update_trades_over_time(df_filtered, views.trades)
              /\ views.volume = update_volume_over_time(df_filtered, views.volume)
        /\ (make_summary(df_all, "Exchange").ok /\ make_summary(df_all, "ISIN").ok
            /\ make_summary(df_all, "nombre").ok)
              => summaries \in SummariesOf(df_all, NoSummaries)

\* The tick fetched a table without the Exchange column: the Exchange summary
\* raised, and the ISIN table still shows the groups of the snapshot before
\* although the ISIN summary of the new table can be computed.
C11_Failing ==
    /\ last = "refresh_malformed"
    /\ df_all = NoExchangeFrame
    /\ ~make_summary(df_all, "Exchange").ok
    /\ make_summary(df_all, "ISIN").ok
    /\ summaries.isin \notin make_summary(df_all, "ISIN").outcomes
    /\ ~views.table.ok
    /\ views.trades # <<>>

----------------------------------------------------------------------------
(* C12: the filter widgets and the snapshot of a refresh tick. *)

\* The stringified values the column col holds in df.
DomainOf(df, col) == {StrOf(df.rows[i][col]) : i \in 1..Len(df.rows)}

\* The columns of df a listbox is built for.
CatCols(df) == Range(df.columns) \ (SkipFilterCols \cup df.numeric)

\* There is a listbox for every text column of df and for no other column,
\* and each offers "(All)" and exactly the values its column holds in df.
FiltersOffer(df) ==
    /\ {dynamic_filters[k].col : k \in {j \in 1..Len(dynamic_filters) :
                                          dynamic_filters[j].type = "cat"}} = CatCols(df)
    /\ \A k \in 1..Len(dynamic_filters) :
          dynamic_filters[k].type = "cat"
              => Range(dynamic_filters[k].values)
                   = {AllSentinel} \cup DomainOf(df, dynamic_filters[k].col)

\* C12: after a refresh tick that fetched a table the filters are those of
\* the table fetched.
C12_FiltersFollowSnapshot == AfterRecompute => FiltersOffer(df_all)

\* The filters are those of the table the constructor fetched, whatever the
\* ticks fetch after it: nothing but the constructor builds them.
C12_FiltersBuiltOnce ==
    /\ (last = "init" => FiltersOffer(df_all))
    /\ \E df \in InitFeed :
          /\ Len(dynamic_filters) = Len(build_dynamic_filters(df, <<>>))
          /\ \A k \in 1..Len(dynamic_filters) :
                /\ dynamic_filters[k].col = build_dynamic_filters(df, <<>>)[k].col
                /\ dynamic_filters[k].type = "cat"
                      => dynamic_filters[k].values = build_dynamic_filters(df, <<>>)[k].values

\* The constructor fetched the four-row example (exchanges A, B, C), a tick
\* fetched a table with the exchanges A, B and a missing one: the Exchange
\* listbox still offers C and does not offer "None".
C12_Failing ==
    /\ last = "refresh_ok"
    /\ df_all = GappedFrame
    /\ HasEntry(dynamic_filters, "Exchange")
    /\ "C" \in Range(dynamic_filters[EntryOf(dynamic_filters, "Exchange")].values)
    /\ "C" \notin DomainOf(df_all, "Exchange")
    /\ "None" \in DomainOf(df_all, "Exchange")
    /\ "None" \notin Range(dynamic_filters[EntryOf(dynamic_filters, "Exchange")].values)

----------------------------------------------------------------------------
(* C13 - C16: the grouped summaries. *)

\* update_global_summaries has just run.
Summarised == last = "summaries"

\* The keys the rows of df hold in keycol, a missing one included.
KeysOf(df, keycol) == {df.rows[i][keycol] : i \in 1..Len(df.rows)}

RECURSIVE SumField(_, _)
SumField(gs, field) ==
    IF gs = <<>> THEN 0 ELSE Head(gs)[field] + SumField(Tail(gs), field)

\* The trade counts of the groups add up to the rows of df_all and there is
\* one group for each key, if no row of df_all lacks the key.
CountsAddUp(keycol, groups) ==
    NA \notin KeysOf(df_all, keycol) =>
        /\ SumField(groups, "trades") = Len(df_all.rows)
        /\ {groups[k].key : k \in 1..Len(groups)} = KeysOf(df_all, keycol)
        /\ Len(groups) = Cardinality(KeysOf(df_all, keycol))

\* C13: for a snapshot in which every row has a key, the trade counts of the
\* groups make_summary returns sum to the number of rows and there is exactly
\* one group per distinct key (the ISIN groups are looked at where the cap
\* of the ISIN table cuts none off).
C13_TradesSumToRows ==
    Summarised =>
        /\ CountsAddUp("Exchange", summaries.exch)
        /\ CountsAddUp("nombre", summaries.nombre)
        /\ Cardinality(KeysOf(df_all, "ISIN")) <= IsinCap
              => CountsAddUp("ISIN", summaries.isin)

\* Three rows, two exchanges, one instrument with two spellings: two groups
\* each, and the counts sum to three.
C13_Witness ==
    /\ Summarised
    /\ df_all = Frame(<<G1, G4, G6>>)
    /\ Len(summaries.exch) = 2
    /\ SumField(summaries.exch, "trades") = 3
    /\ Len(summaries.isin) = 2

\* A row without exchange is in no group: the counts fall short.
C13_WitnessMissingKey ==
    /\ Summarised
    /\ NA \in KeysOf(df_all, "Exchange")
    /\ Len(df_all.rows) = 3
    /\ SumField(summaries.exch, "trades") = 2

\* The place of the first row of df_all that holds key in keycol.
FirstSeen(keycol, key) ==
    CHOOSE i \in 1..Len(df_all.rows) :
        /\ df_all.rows[i][keycol] = key
        /\ \A j \in 1..(i - 1) : df_all.rows[j][keycol] # key

\* No group comes before a group that has a larger total PnL.
Descending(groups) ==
    \A k \in 1..(Len(groups) - 1) : groups[k].pnl_total >= groups[k + 1].pnl_total

\* Groups that have the same total PnL come in the order their keys are
\* first seen in df_all.
TiesAsEncountered(keycol, groups) ==
    \A k \in 1..(Len(groups) - 1) :
        groups[k].pnl_total = groups[k + 1].pnl_total
            => FirstSeen(keycol, groups[k].key) < FirstSeen(keycol, groups[k + 1].key)

\* The summaries are sorted descending by total PnL.
C14_SortedDescending ==
    Summarised =>
        /\ Descending(summaries.exch)
        /\ Descending(summaries.nombre)
        /\ Descending(summaries.isin)

\* C14: the groups of a summary are sorted descending by total PnL, and
\* groups with the same total PnL come in the order in which their keys are
\* first met in the snapshot.
C14_SortedTiesByEncounter ==
    /\ C14_SortedDescending
    /\ Summarised =>
        /\ TiesAsEncountered("Exchange", summaries.exch)
        /\ TiesAsEncountered("nombre", summaries.nombre)
        /\ TiesAsEncountered("ISIN", summaries.isin)

\* Exchange C is met before exchange B and both total +10: the table shows B
\* before C.
C14_Failing ==
    /\ Summarised
    /\ df_all = Frame(<<G4, G1>>)
    /\ summaries.exch[1].key = "B" /\ summaries.exch[1].pnl_total = 10
    /\ summaries.exch[2].key = "C" /\ summaries.exch[2].pnl_total = 10

\* The places of the rows of df_all that hold key in keycol.
PlacesOf(keycol, key) == {i \in 1..Len(df_all.rows) : df_all.rows[i][keycol] = key}

\* The PnL of the rows of df_all at the places of I from lo to hi.
RECURSIVE PnlBetween(_, _, _)
PnlBetween(I, lo, hi) ==
    IF lo > hi THEN 0
    ELSE IF lo = hi THEN (IF lo \in I THEN df_all.rows[lo]["PnL"] ELSE 0)
    ELSE PnlBetween(I, lo, (lo + hi) \div 2) + PnlBetween(I, ((lo + hi) \div 2) + 1, hi)

PnlOver(I) == PnlBetween(I, 1, Len(df_all.rows))

\* The aggregates of group g are those of the rows of df_all that hold its key.
AggregatesOfRows(keycol, g) ==
    LET I == PlacesOf(keycol, g.key)
    IN /\ g.trades = Cardinality(I)
       /\ g.pos_trades = Cardinality({i \in I : df_all.rows[i]["PnL"] > 0})
       /\ g.neg_trades = Cardinality({i \in I : df_all.rows[i]["PnL"] < 0})
       /\ g.trades > 0
       /\ g.pct_pos.num * g.trades = 100 * g.pos_trades * g.pct_pos.den
       /\ g.pnl_total = PnlOver(I)

\* C15: in every group make_summary yields, trades is the number of rows of
\* the group, pos_trades the rows with PnL > 0, neg_trades the rows with
\* PnL < 0, pct_pos is 100 * pos_trades / trades and pnl_total the sum of
\* PnL.
C15_GroupAggregates ==
    Summarised =>
        /\ \A k \in 1..Len(summaries.exch) : AggregatesOfRows("Exchange", summaries.exch[k])
        /\ \A k \in 1..Len(summaries.nombre) : AggregatesOfRows("nombre", summaries.nombre[k])
        /\ \A k \in 1..Len(summaries.isin) : AggregatesOfRows("ISIN", summaries.isin[k])

\* Three trades of TSLA at 10:00:00, 10:00:05 and 10:00:07 with PnL +10, -5
\* and +20: trades 3, +2, -1, 66.7 % with gain, total +25.
C15_Witness ==
    /\ Summarised
    /\ df_all = Frame(<<G1, G2, G3>>)
    /\ Len(summaries.nombre) = 1
    /\ summaries.nombre[1].key = "TSLA"
    /\ summaries.nombre[1].trades = 3
    /\ summaries.nombre[1].pos_trades = 2
    /\ summaries.nombre[1].neg_trades = 1
    /\ Tenths(summaries.nombre[1].pct_pos) = 667
    /\ summaries.nombre[1].pnl_total = 25

\* The instruments of df_all, the rows without one left out as groupby does.
Instruments == KeysOf(df_all, "ISIN") \ {NA}

\* The instruments the ISIN summary shows.
ShownInstruments == {summaries.isin[k].key : k \in 1..Len(summaries.isin)}

\* C16: the ISIN summary has at most 50 rows, one per instrument up to that
\* number, and no instrument it leaves out has a larger total PnL than one
\* it shows: with more than 50 instruments it shows the 50 with the highest
\* total PnL.
C16_IsinTopFifty ==
    Summarised =>
        /\ Len(summaries.isin) <= IsinCap
        /\ ShownInstruments \subseteq Instruments
        /\ Cardinality(ShownInstruments) = Len(summaries.isin)
        /\ Len(summaries.isin) = IF Cardinality(Instruments) > IsinCap
                                 THEN IsinCap ELSE Cardinality(Instruments)
        /\ \A k \in 1..Len(summaries.isin) : \A key \in Instruments \ ShownInstruments :
              summaries.isin[k].pnl_total >= PnlOver(PlacesOf("ISIN", key))

\* Fifty-two instruments: fifty are shown, the two left out are those with
\* the lowest totals, -19 and -18.
C16_Witness ==
    /\ Summarised
    /\ Cardinality(Instruments) = IsinCap + 2
    /\ Len(summaries.isin) = IsinCap
    /\ Instruments \ ShownInstruments = {IsinCode(38), IsinCode(23)}
    /\ summaries.isin[IsinCap].pnl_total = -17

-----------------------------------------------------------------------------
(* C17: the volume shares of the counterparties. *)

\* The bucket a name belongs to when capitals and small letters count alike.
NameBucket(name) ==
    CASE name \in {"TSLA", "tsla"} -> "TSLA"
      [] name \in {"NVDA", "nvda"} -> "NVDA"
      [] OTHER -> "Other"

\* The traded notional of the rows of df_all at the places I.
RECURSIVE NotionalBetween(_, _, _)
NotionalBetween(I, lo, hi) ==
    IF lo > hi THEN 0
    ELSE IF lo = hi
    THEN (IF lo \in I
          THEN LET q == df_all.rows[lo]["qty"]
                   p == df_all.rows[lo]["exec price"]
               IN (IF q < 0 THEN -q ELSE q) * (IF p < 0 THEN -p ELSE p)
          ELSE 0)
    ELSE NotionalBetween(I, lo, (lo + hi) \div 2)
             + NotionalBetween(I, ((lo + hi) \div 2) + 1, hi)

NotionalOver(I) == NotionalBetween(I, 1, Len(df_all.rows))

\* The rows of df_all of bucket b, those of the counterparties cps.
BucketPlaces(cps, b) ==
    {i \in 1..Len(df_all.rows) :
        /\ df_all.rows[i]["counterparty"] \in cps
        /\ NameBucket(df_all.rows[i]["nombre"]) = b}

\* The bucket volumes of row r are the notionals of the trades of its
\* counterparty, each trade in the bucket of its name.
CountsItsTrades(r) ==
    /\ r.vol1 = NotionalOver(BucketPlaces({r.cp}, "TSLA"))
    /\ r.vol2 = NotionalOver(BucketPlaces({r.cp}, "NVDA"))
    /\ r.other = NotionalOver(BucketPlaces({r.cp}, "Other"))

\* The three bucket volumes of row r sum to its total, which is not zero: its
\* three shares, each volume over the total, sum to 1.
BucketSharesSumToOne(r) == r.total > 0 /\ r.vol1 + r.vol2 + r.other = r.total

\* The sum of pct_total, total over total_global, over the rows shown.
PctTotalSum ==
    [num |-> SumField(summaries.cp, "total"),
     den |-> IF summaries.cp = <<>> THEN 1 ELSE summaries.cp[1].total_global]

\* Every row shown is of another counterparty and has the same global total.
OneRowPerCounterparty ==
    /\ \A j, k \in 1..Len(summaries.cp) :
          /\ summaries.cp[j].total_global = summaries.cp[k].total_global
          /\ j # k => summaries.cp[j].cp # summaries.cp[k].cp

\* The volume the table shows, all rows and buckets together.
VolumeShown ==
    SumField(summaries.cp, "vol1") + SumField(summaries.cp, "vol2")
        + SumField(summaries.cp, "other")

Counterparties == KeysOf(df_all, "counterparty") \ {NA}

C17_WitnessNoCounterparty ==
    /\ Summarised
    /\ df_all = Frame(<<G5>>)
    /\ summaries.cp = <<>>
    /\ NotionalOver({1}) = 200

-----------------------------------------------------------------------------
(* The charts on their own: the filters applied to, and the main table     *)
(* sorted on, snapshots with trades at 10:00:00 and five seconds later,    *)
(* two trades in one second, a trade before 08:00 and one of the next day. *)

K1 == MkRow(36000, "TSLA", "A", "H", "DE0001", "buy", 50, 3, 10, 0)
K2 == MkRow(36005, "NVDA", "B", "J", "DE0002", "sell", 100, 2, -5, 0)

\* Half a second after K2.
K3 == [MkRow(36005, "TSLA", "A", "H", "DE0001", "buy", 200, 1, 20, 5) EXCEPT !["TimeDT"] = @ + 1]

\* At 07:59:59.
K4 == MkRow(28799, "MSFT", "A", "J", "DE0003", "buy", 300, 1, 7, 0)

\* At 10:00:02 of the next day.
K5 == [MkRow(DaySeconds + 36002, "TSLA", "B", "H", "DE0001", "sell", 20, 2, -3, 0)
         EXCEPT !["Time"] = 36002]

ChartPool == {K1, K2, K3, K4, K5}

ChartSnapshots == {Frame(s) : s \in SeqsUpTo(ChartPool, MaxRows)}

\* The filters as they are built, and with exchange A selected.
ChartFilterStates ==
    LET built == build_dynamic_filters(Frame(<<K1, K2, K3, K4, K5>>), <<>>)
    IN {built, SelectIn(built, "Exchange", {2})}

InitCharts ==
    /\ df_all \in ChartSnapshots
    /\ dynamic_filters \in ChartFilterStates
    /\ df_filtered = df_all
    /\ last = "init"
    /\ sort_state_main = <<>>
    /\ running = TRUE
    /\ refresh_ms = IntVarHolding(DefaultRefreshMs)
    /\ summaries = NoSummaries
    /\ views = NoViews
    /\ after_q = {}
    /\ handles = <<>>
    /\ calls = [k \in DebounceKeys |-> NoCall]
    /\ invoked = [k \in DebounceKeys |-> NoInvocation]

\* A click on the heading of the qty column.
SortByQty == SortMainBy("qty")

NextCharts == FApply \/ SortByQty

SpecCharts == InitCharts /\ [][NextCharts]_vars

-----------------------------------------------------------------------------
(* C18, C19: the cumulative series of the charts. *)

\* update_all_views has just drawn the charts of df_filtered.
ViewsDrawn == last \in {"apply", "sort"}

\* The series has a value at every second and no value is smaller than the
\* one before it.
NonDecreasing(series) ==
    \A k \in 1..Len(series) :
        /\ HasValue(series[k])
        /\ k > 1 => series[k - 1].v <= series[k].v

\* The values the series has, in the order of the seconds.
ValuesOf(series) ==
    LET held == SelectSeq(series, HasValue)
    IN [k \in 1..Len(held) |-> held[k].v]

\* The cumulative trade count is non-decreasing.
C18_TradesNonDecreasing == ViewsDrawn => NonDecreasing(views.trades)

\* Where a cumulative volume has a value, the value is not smaller than the
\* value before.
C18_VolumeValuesNonDecreasing ==
    ViewsDrawn =>
        \A b \in Range(ChartBuckets) :
            \A k \in 2..Len(ValuesOf(views.volume[b])) :
                ValuesOf(views.volume[b])[k - 1] <= ValuesOf(views.volume[b])[k]

\* C18: the cumulative trade count and the cumulative volume of each bucket
\* are non-decreasing over the seconds of their index, whatever filtered
\* view they are drawn of.
C18_CumulativeNonDecreasing ==
    ViewsDrawn =>
        /\ NonDecreasing(views.trades)
        /\ \A b \in Range(ChartBuckets) : NonDecreasing(views.volume[b])

\* A TSLA trade of 150 at 10:00:00 and an NVDA trade at 10:00:05: the
\* cumulative TSLA volume is 150 up to 10:00:04 and has no value at 10:00:05.
C18_Failing ==
    /\ ViewsDrawn
    /\ df_filtered.rows = <<K1, K2>>
    /\ Len(views.volume["TSLA"]) = 6
    /\ views.volume["TSLA"][5] = [t |-> 36004, v |-> 150]
    /\ views.volume["TSLA"][6].t = 36005
    /\ ~HasValue(views.volume["TSLA"][6])
    /\ ~HasValue(views.volume["NVDA"][1])

\* The places of the rows of df_filtered inside the window, 08:00 to 22:00
\* of the day of its earliest trade.
PlacesInWindow ==
    LET n     == Len(df_filtered.rows)
        stamp == [i \in 1..n |-> df_filtered.rows[i]["TimeDT"]]
        early == CHOOSE i \in 1..n : \A j \in 1..n : stamp[i] <= stamp[j]
        day   == stamp[early] \div (TicksPerSecond * DaySeconds)
        open  == (day * DaySeconds + 8 * 3600) * TicksPerSecond
        close == (day * DaySeconds + 22 * 3600) * TicksPerSecond
    IN IF n = 0 THEN {} ELSE {i \in 1..n : open <= stamp[i] /\ stamp[i] <= close}

\* The second the trade at place i falls in.
SecondAt(i) == df_filtered.rows[i]["TimeDT"] \div TicksPerSecond

\* What the trades at the places I contribute to the chart: 1 each to the
\* trades chart, the PnL to the PnL chart.
RECURSIVE Contributions(_, _)
Contributions(I, chart) ==
    IF I = {} THEN 0
    ELSE LET i == CHOOSE x \in I : TRUE
         IN (IF chart = "trades" THEN 1 ELSE df_filtered.rows[i]["PnL"])
            + Contributions(I \ {i}, chart)

\* The series has one entry for every second from the first to the last
\* second with a trade inside the window and no other entry, its value the
\* contributions up to that second, so that a second without trade adds
\* nothing and the last value is the sum of all contributions inside the
\* window.
OneEntryPerSecond(series, chart) ==
    LET W  == PlacesInWindow
        lo == CHOOSE s \in {SecondAt(i) : i \in W} : \A i \in W : s <= SecondAt(i)
        hi == CHOOSE s \in {SecondAt(i) : i \in W} : \A i \in W : s >= SecondAt(i)
    IN IF W = {} THEN series = <<>>
       ELSE /\ Len(series) = hi - lo + 1
            /\ \A k \in 1..Len(series) :
                  /\ series[k].t = lo + k - 1
                  /\ HasValue(series[k])
                  /\ series[k].v = Contributions({i \in W : SecondAt(i) <= lo + k - 1}, chart)
            /\ series[Len(series)].v = Contributions(W, chart)

\* C19: the series of the cumulative PnL chart and of the cumulative trades
\* chart have exactly one entry for every second from the first to the last
\* second that has a trade inside the window and none outside, a second
\* without trade contributes zero, and the last cumulative value is the sum
\* of the contributions inside the window.
C19_OneEntryPerSecond ==
    ViewsDrawn =>
        /\ OneEntryPerSecond(views.trades, "trades")
        /\ OneEntryPerSecond(views.pnl, "pnl")

\* Trades at 10:00:00 and 10:00:05: six entries, the cumulative counts
\* 1, 1, 1, 1, 1, 2 and the cumulative PnL 10, 10, 10, 10, 10, 5.
C19_Witness ==
    /\ ViewsDrawn
    /\ df_filtered.rows = <<K1, K2>>
    /\ Len(views.trades) = 6
    /\ views.trades[1].t = 36000 /\ views.trades[6].t = 36005
    /\ ValuesOf(views.trades) = <<1, 1, 1, 1, 1, 2>>
    /\ ValuesOf(views.pnl) = <<10, 10, 10, 10, 10, 5>>

\* A trade at 07:59:59 and one of the next day are outside the window of
\* the day: the series of the two and a trade at 10:00:00 has one entry.
C19_WitnessOutside ==
    /\ ViewsDrawn
    /\ df_filtered.rows = <<K5, K1, K4>>
    /\ views.trades = <<[t |-> 36000, v |-> 1]>>
    /\ views.pnl = <<[t |-> 36000, v |-> 10]>>

----------------------------------------------------------------------------
(* C30: the percentage drawn in the summary tables. *)

SummaryTables == {"exch", "isin", "nombre"}

\* The number of tenths a drawn number shows: its digits, read without the
\* point and the commas.
TenthsShown(text) == DigitsVal(SelectSeq(text, LAMBDA c : c \in Digits))

\* The cell shows the percentage pct rounded to one decimal, as "+12.3%".
ShowsPercent(text, pct) ==
    /\ Len(text) >= 5
    /\ text[1] = "+"
    /\ text[Len(text)] = "%"
    /\ text[Len(text) - 2] = "."
    /\ TenthsShown(text) = Tenths(pct)

\* C30: for every group of a summary table the text drawn in its
\* "% Trades PnL+" cell is the pct_pos make_summary computed for the group,
\* rounded to one decimal, whatever pct_pos between 0 and 100 is.
C30_PctCellShowsPctPos ==
    Summarised =>
        \A t \in SummaryTables : \A k \in 1..Len(summaries[t]) :
            ShowsPercent(summaries.drawn[t][k]["% Trades PnL+"], summaries[t][k].pct_pos)

\* What does hold: the cell shows pct_pos unless pct_pos is above 0 and at
\* most 1 percent.
C30_PctCellAboveOnePercent ==
    Summarised =>
        \A t \in SummaryTables : \A k \in 1..Len(summaries[t]) :
            (Tenths(summaries[t][k].pct_pos) = 0 \/ Tenths(summaries[t][k].pct_pos) > 10)
                => ShowsPercent(summaries.drawn[t][k]["% Trades PnL+"],
                                summaries[t][k].pct_pos)

\* One trade with a gain in two hundred on exchange A: pct_pos is 0.5, the
\* cell of the Exchange table shows "+50.0%".
C30_Failing ==
    /\ Summarised
    /\ df_all = Frame(OneGainRows)
    /\ summaries.exch[1].pct_pos = [num |-> 100, den |-> 200]
    /\ summaries.drawn.exch[1]["% Trades PnL+"] = <<"+", "5", "0", ".", "0", "%">>

----------------------------------------------------------------------------
(* A summary table on its own: set_rows called with rows of numbers, the   *)
(* same number under each of the six headings of summary_cols, so that a   *)
(* number is drawn as a percentage, as a PnL and as a plain number.  The   *)
(* numbers are binary fractions, which a float holds exactly: below -1000, *)
(* between -1 and 0, 0, between 0 and 1, 1, above 1 and above 1000, whole   *)
(* and not.                                                                *)

FormatValues ==
    {[num |-> n, den |-> 8] : n \in {0 - 98765, 0 - 20, 0 - 1, 0, 1, 4, 8, 9, 20, 24, 8000, 98765}}
        \cup {[num |-> 0 - 1, den |-> 32]}

NumberRow(x) == [col \in Range(summary_cols) |-> NumVal(x)]

NumberRows == {NumberRow(x) : x \in FormatValues}

InitFormat ==
    /\ df_all = Frame(<<>>)
    /\ df_filtered = df_all
    /\ dynamic_filters = <<>>
    /\ summaries = NoSummaries
    /\ views = NoViews
    /\ last = "init"
    /\ sort_state_main = <<>>
    /\ running = TRUE
    /\ refresh_ms = IntVarHolding(DefaultRefreshMs)
    /\ after_q = {}
    /\ handles = <<>>
    /\ calls = [k \in DebounceKeys |-> NoCall]
    /\ invoked = [k \in DebounceKeys |-> NoInvocation]

\* exch_table.set_rows(rows): the rows are kept and drawn.
SetRows(rows) ==
    /\ summaries' = [summaries EXCEPT !.exch = rows, !.drawn.exch = render(rows)]
    /\ last' = "set_rows"
    /\ UNCHANGED <<df_all, df_filtered, dynamic_filters, sort_state_main, running,
                   refresh_ms, views, timerVars>>

NextFormat == \E rows \in SeqsUpTo(NumberRows, 2) \ {<<>>} : SetRows(rows)

SpecFormat == InitFormat /\ [][NextFormat]_vars

----------------------------------------------------------------------------
(* C21: parsing what was formatted. *)

\* x rounded to one decimal, in tenths.
RoundedTenths(x) == IF x.num < 0 THEN 0 - Tenths(RatAbs(x)) ELSE Tenths(x)

\* The number of decimals a number is drawn with under a heading.
DecimalsShown(col, x) ==
    IF ~IsPctCol(col) /\ ~IsPnlCol(col) /\ IntegerLike(x) THEN 0 ELSE 1

\* Parsing the text gives x rounded to the precision it is drawn with.
ParsesBack(col, x, text) ==
    LET parsed == parse_number_like(text)
    IN /\ parsed.ok
       /\ parsed.d = DecimalsShown(col, x)
       /\ 10 * parsed.m = RoundedTenths(x) * Pow10(parsed.d)

\* C21: for every number x and every kind of column (percentage, PnL,
\* integer-like, other float) parsing the text _format_value made of x gives
\* x back, rounded to the precision shown: percentages between 0 and 1 and
\* negative numbers drawn with the unicode minus included.
C21_ParseOfFormat ==
    last = "set_rows" =>
        \A k \in 1..Len(summaries.exch) : \A col \in Range(summary_cols) :
            ParsesBack(col, summaries.exch[k][col].q, summaries.drawn.exch[k][col])

\* What does hold: the same, but for the numbers above 0 and up to 1 in a
\* percentage column.
C21_ParseOfFormatButUnitPercent ==
    last = "set_rows" =>
        \A k \in 1..Len(summaries.exch) : \A col \in Range(summary_cols) :
            ~(IsPctCol(col) /\ summaries.exch[k][col].q.num > 0
                  /\ summaries.exch[k][col].q.num <= summaries.exch[k][col].q.den)
                => ParsesBack(col, summaries.exch[k][col].q, summaries.drawn.exch[k][col])

\* The number 0.5 in the percentage column: it is drawn as "+50.0%", which
\* parses to 50.
C21_Failing ==
    /\ last = "set_rows"
    /\ summaries.exch = <<NumberRow([num |-> 4, den |-> 8])>>
    /\ summaries.drawn.exch[1]["% Trades PnL+"] = <<"+", "5", "0", ".", "0", "%">>
    /\ parse_number_like(summaries.drawn.exch[1]["% Trades PnL+"]) = [ok |-> TRUE, m |-> 500, d |-> 1]
    /\ summaries.drawn.exch[1]["PnL"] = <<"+", "0", ".", "5">>

----------------------------------------------------------------------------
(* C22: the window of the charts. *)

\* The series runs from the first to the last second that has a trade of
\* df_filtered inside the window of the day of its earliest trade, and is
\* empty when no trade is inside.
SpansWindow(series) ==
    LET W  == PlacesInWindow
        lo == CHOOSE s \in {SecondAt(i) : i \in W} : \A i \in W : s <= SecondAt(i)
        hi == CHOOSE s \in {SecondAt(i) : i \in W} : \A i \in W : s >= SecondAt(i)
    IN IF W = {} THEN series = <<>>
       ELSE /\ Len(series) = hi - lo + 1
            /\ \A k \in 1..Len(series) : series[k].t = lo + k - 1

\* The cumulative PnL and the cumulative trades are drawn over the window
\* of the day of the earliest trade, in whatever order the rows are.
C22_TimeChartsWindow ==
    ViewsDrawn => SpansWindow(views.pnl) /\ SpansWindow(views.trades)

\* C22: each of the three cumulative series (PnL, trades, volume of each
\* bucket) is drawn over 08:00-22:00 of the day of the earliest trade of
\* df_filtered, in whatever order its rows are, and of the trades inside
\* that window only.
C22_WindowOfEarliestDay ==
    ViewsDrawn =>
        /\ SpansWindow(views.pnl)
        /\ SpansWindow(views.trades)
        /\ \A b \in Range(ChartBuckets) : SpansWindow(views.volume[b])

\* A trade of the next day comes before a trade at 10:00:00 of the day: the
\* PnL and the trades are drawn at 10:00:00 of the day, the volume at
\* 10:00:02 of the next day.
C22_Failing ==
    /\ ViewsDrawn
    /\ df_filtered.rows = <<K5, K1>>
    /\ views.trades = <<[t |-> 36000, v |-> 1]>>
    /\ views.pnl = <<[t |-> 36000, v |-> 10]>>
    /\ views.volume["TSLA"] = <<[t |-> DaySeconds + 36002, v |-> 40]>>

----------------------------------------------------------------------------
(* C23: the gaps of the cumulative volume. *)

\* The notional the trades of df_filtered at the places I have traded.
RECURSIVE VolumeTraded(_)
VolumeTraded(I) ==
    IF I = {} THEN 0
    ELSE LET i == CHOOSE x \in I : TRUE
         IN Abs(df_filtered.rows[i]["qty"]) * Abs(df_filtered.rows[i]["exec price"])
            + VolumeTraded(I \ {i})

\* The places inside the window of the trades of bucket b up to second s.
BucketPlacesUpTo(b, s) ==
    {i \in PlacesInWindow :
        NameBucket(df_filtered.rows[i]["nombre"]) = b /\ SecondAt(i) <= s}

\* The first row of df_filtered is of the day of its earliest trade.
FirstRowOfEarliestDay ==
    /\ df_filtered.rows # <<>>
    /\ \A i \in 1..Len(df_filtered.rows) :
           df_filtered.rows[1]["TimeDT"] \div (TicksPerSecond * DaySeconds)
               <= df_filtered.rows[i]["TimeDT"] \div (TicksPerSecond * DaySeconds)

\* C23: the line of every bucket has, at every second from the first to
\* the last second with a trade, a value, which is what the bucket has
\* traded up to and including that second: a second without a trade of the
\* bucket adds nothing and the line is neither missing nor reset there.
C23_VolumeFlatOverGaps ==
    ViewsDrawn =>
        \A b \in Range(ChartBuckets) :
            /\ SpansWindow(views.volume[b])
            /\ \A k \in 1..Len(views.volume[b]) :
                  /\ HasValue(views.volume[b][k])
                  /\ views.volume[b][k].v
                         = VolumeTraded(BucketPlacesUpTo(b, views.volume[b][k].t))

\* What does hold when the first row is of the earliest day: the lines run
\* over the seconds of the window and a value, where a line has one, is
\* what the bucket has traded up to that second.
C23_VolumeValuesAreSums ==
    (ViewsDrawn /\ FirstRowOfEarliestDay) =>
        \A b \in Range(ChartBuckets) :
            /\ SpansWindow(views.volume[b])
            /\ \A k \in 1..Len(views.volume[b]) :
                  HasValue(views.volume[b][k]) =>
                      views.volume[b][k].v
                          = VolumeTraded(BucketPlacesUpTo(b, views.volume[b][k].t))

\* A TSLA trade of 150 at 10:00:00 and an NVDA trade of 200 at 10:00:05: the
\* NVDA line has no value at 10:00:00 and the TSLA line none at 10:00:05,
\* where it should stay at 150; the line of the bucket without trades is 0.
C23_Failing ==
    /\ ViewsDrawn
    /\ df_filtered.rows = <<K1, K2>>
    /\ ~HasValue(views.volume["NVDA"][1])
    /\ ValuesOf(views.volume["NVDA"]) = <<0, 0, 0, 0, 200>>
    /\ ~HasValue(views.volume["TSLA"][6])
    /\ ValuesOf(views.volume["TSLA"]) = <<150, 150, 150, 150, 150>>
    /\ ValuesOf(views.volume["Other"]) = <<0, 0, 0, 0, 0, 0>>

----------------------------------------------------------------------------
(* The refresh timer on its own: the window constructed with any interval  *)
(* in its settings, the user typing into the refresh entry, loading        *)
(* settings and freezing, and Tk running refresh_data.                      *)

\* The intervals a settings file holds.
RefreshSettings == {0 - 5, 0, 1999, 2000, 2001, 3500, 29999, 30000, 30001, 100000}

\* What the refresh entry holds after the user has typed into it.
RefreshEntries == {IntVarHolding(n) : n \in RefreshSettings} \cup {IntVarUnreadable}

\* What provider.fetch() returns in this harness.
RefreshFeed == {Frame(ExampleRows), Frame(<<>>)}

InitRefresh ==
    \E n \in RefreshSettings :
        LET df      == Frame(ExampleRows)
            filters == build_dynamic_filters(df, <<>>)
            first   == apply_dynamic_filters(df, df, filters)
        IN /\ df_all = first.df_all
           /\ df_filtered = first.df_filtered
           /\ dynamic_filters = filters
           /\ summaries \in update_global_summaries(df, first.df_filtered, NoSummaries)
           /\ views = update_all_views(first.df_filtered, NoViews)
           /\ sort_state_main = <<>>
           /\ running = TRUE
           /\ refresh_ms = IntVarHolding(n)
           /\ after_q = ArmRefresh({}, <<>>, IntVarHolding(n))
           /\ handles = <<>>
           /\ last = "init"
           /\ calls = [k \in DebounceKeys |-> NoCall]
           /\ invoked = [k \in DebounceKeys |-> NoInvocation]

\* The user types into the refresh entry, whose textvariable is refresh_ms.
OnRefreshEntry(var) ==
    /\ refresh_ms' = var
    /\ last' = "typed"
    /\ UNCHANGED <<df_all, df_filtered, dynamic_filters, sort_state_main, running,
                   summaries, views, timerVars>>

\* load_settings_dialog with a file that holds the interval n:
\* _apply_settings_to_ui sets refresh_ms and redraws the views.
LoadSettings(n) ==
    /\ refresh_ms' = IntVarHolding(n)
    /\ views' = update_all_views(df_filtered, views)
    /\ last' = "settings"
    /\ UNCHANGED <<df_all, df_filtered, dynamic_filters, sort_state_main, running,
                   summaries, timerVars>>

NextRefresh ==
    \/ \E var \in RefreshEntries : OnRefreshEntry(var)
    \/ \E n \in RefreshSettings : LoadSettings(n)
    \/ ToggleRun
    \/ RefreshRaises
    \/ \E table \in RefreshFeed : RefreshFetches(table)
    \/ RefreshFrozen

SpecRefresh == InitRefresh /\ [][NextRefresh]_vars

----------------------------------------------------------------------------
(* C24: the delay of the refresh timer. *)

\* max(2000, min(refresh_ms, 30000)), with 5000 for a refresh_ms that cannot
\* be read.
ClampedInterval(var) ==
    LET ms == IF var.ok THEN var.value ELSE 5000
    IN IF ms < 2000 THEN 2000 ELSE IF ms > 30000 THEN 30000 ELSE ms

\* The refresh timers that are pending.
RefreshTimers == {t \in after_q : t.cb.func = "refresh_data"}

\* refresh_data has just run.
Ticked == last \in {"refresh_ok", "refresh_malformed", "refresh_raised", "refresh_frozen"}

\* C24: the refresh timer armed at the end of the construction and at the
\* end of every run of refresh_data has the delay
\* max(2000, min(refresh_ms, 30000)), refresh_ms taken as 5000 when it
\* cannot be read as an integer.
C24_ClampedDelay ==
    (last = "init" \/ Ticked) =>
        /\ RefreshTimers # {}
        /\ \A t \in RefreshTimers : t.ms = ClampedInterval(refresh_ms)

\* The entry holds a text that is no number: the tick arms the next one
\* after 5000 ms.
C24_Witness ==
    /\ Ticked
    /\ refresh_ms = IntVarUnreadable
    /\ \E t \in RefreshTimers : t.ms = 5000

\* An interval of 100000 ms is cut to 30000 ms, one of 0 ms raised to 2000.
C24_WitnessClamped ==
    /\ Ticked
    /\ refresh_ms \in {IntVarHolding(100000), IntVarHolding(0)}
    /\ \E t \in RefreshTimers : t.ms = IF refresh_ms.value = 0 THEN 2000 ELSE 30000

----------------------------------------------------------------------------
(* C25: scheduling under a key whose handle is stale. *)

\* The handle stored under the key is of a timer that has fired.
StaleHandle(k) == k \in DOMAIN handles /\ ~Pending(k)

\* A schedule call made under a key with a stale handle arms one timer for
\* the key, with the delay and the action of the call, stores its id, and
\* leaves the timers of the other keys and what has been invoked alone.
RearmsStale ==
    \A k \in DebounceKeys :
        (StaleHandle(k) /\ calls'[k].n = calls[k].n + 1) =>
            /\ Cardinality({t \in after_q' : t.cb.key = k}) = 1
            /\ \A t \in after_q' :
                   t.cb.key = k =>
                       /\ t.id = handles'[k]
                       /\ t.ms = calls'[k].delay /\ t.left = calls'[k].delay
                       /\ t.cb.func = calls'[k].func /\ t.cb.arg = calls'[k].arg
                       /\ t.cb.n = calls'[k].n
            /\ {t \in after_q' : t.cb.key # k} = {t \in after_q : t.cb.key # k}
            /\ invoked' = invoked

\* The action of a call made after the timer of the key had fired has been
\* invoked as often as a burst was started, by the last call of the burst
\* and not before its delay had passed.
RanOncePerBurst(k) ==
    /\ ~Pending(k)
    /\ invoked[k].count = calls[k].bursts
    /\ invoked[k].cb.n = calls[k].n
    /\ invoked[k].of.age >= invoked[k].of.delay

\* C25: a schedule call under a key whose timer has already fired, the
\* stale handle still stored, arms a new timer all the same, and the new
\* action is invoked once, after its delay.
C25_StaleHandleRearms ==
    /\ [][RearmsStale]_vars
    /\ \A k \in DebounceKeys :
           (calls[k].bursts >= 2 /\ Pending(k)) ~> RanOncePerBurst(k)

\* The timer of the first call has fired, a second call was made under the
\* key and its action has run too.
C25_Witness ==
    /\ calls["filters"].n = 2
    /\ calls["filters"].bursts = 2
    /\ "filters" \in DOMAIN handles
    /\ invoked["filters"].count = 2
    /\ invoked["filters"].cb.n = 2
    /\ ~Pending("filters")

----------------------------------------------------------------------------
(* C26: the refresh ticks neither stop nor multiply.  A state of the model  *)
(* is the window between two handlers, refresh_data not executing.         *)

\* C26: from the end of the constructor on, exactly one refresh_data
\* callback is pending whenever refresh_data is not executing, whether the
\* last run was frozen, had the provider raise or had a recompute fail.
C26_OneRefreshPending ==
    Cardinality({t \in after_q : t.cb = RefreshCb}) = 1

\* A tick whose recompute failed on a table without the trade columns has
\* run while a debounced apply was pending, and one refresh is pending.
C26_Witness ==
    /\ last = "refresh_malformed"
    /\ \E t \in after_q : t.cb = ApplyCb
    /\ \E t \in after_q : t.cb = RefreshCb

\* A tick has run frozen, and one refresh is pending.
C26_WitnessFrozen ==
    /\ last = "refresh_frozen"
    /\ ~running
    /\ \E t \in after_q : t.cb = RefreshCb

\* A tick has run on which the provider raised, and one refresh is pending.
C26_WitnessRaised ==
    /\ last = "refresh_raised"
    /\ \E t \in after_q : t.cb = RefreshCb

----------------------------------------------------------------------------
(* C27: df_filtered after a refresh tick that fetched. *)

\* Every row of df_filtered is a row of df_all, and the four summary tables
\* show what update_global_summaries computes from df_all.
OfCurrentSnapshot ==
    /\ \A i \in 1..Len(df_filtered.rows) :
           \E j \in 1..Len(df_all.rows) : df_all.rows[j] = df_filtered.rows[i]
    /\ make_summary(df_all, "Exchange").ok
    /\ summaries \in SummariesOf(df_all, NoSummaries)

\* C27: in the state a refresh tick leaves that ran while running was true
\* and whose provider.fetch returned, df_filtered holds only rows of the current
\* df_all, the snapshot the summaries of the tick were computed from.  (A
\* fetched table is assigned to df_all before the filters are applied to
\* it; when they fail on it, df_filtered and the summaries stay those of
\* the superseded snapshot.)
C27_FilteredOfCurrentSnapshot ==
    last \in {"refresh_ok", "refresh_malformed"} => OfCurrentSnapshot

\* What does hold: after a tick that fetched a table with the trade
\* columns, df_filtered is that table under the filters and the summaries
\* are those of that table.
C27_FilteredOfWellFormedSnapshot ==
    last = "refresh_ok" =>
        /\ OfCurrentSnapshot
        /\ FilteredFrame(df_all, dynamic_filters).ok
        /\ df_filtered = FilteredFrame(df_all, dynamic_filters).df

\* A tick has fetched a table without the trade columns: df_all is that
\* table, df_filtered still holds a row of the snapshot before.
C27_Failing ==
    /\ last = "refresh_malformed"
    /\ \E i \in 1..Len(df_filtered.rows) :
           \A j \in 1..Len(df_all.rows) : df_all.rows[j] # df_filtered.rows[i]

\* A tick has fetched a table with the trade columns while a filter was
\* narrowing: df_filtered holds some of its rows and not all.
C27_WitnessWellFormed ==
    /\ last = "refresh_ok"
    /\ OfCurrentSnapshot
    /\ df_filtered.rows # <<>>
    /\ Len(df_filtered.rows) < Len(df_all.rows)

----------------------------------------------------------------------------
(* C29: a click on a heading of the main table.  The harness shows a view   *)
(* of up to MaxRows trades, with trades of equal quantity, time, name and  *)
(* exchange among them and the same trade more than once, or a table       *)
(* without the trade columns, and clicks headings.                         *)

\* The headings the harness clicks.
SortHeadings == {"qty", "Time", "nombre", "Exchange"}

\* The trades of the views that are sorted.
SortPool == {R2, R4, R5}

InitSort ==
    /\ df_all \in {Frame(s) : s \in SeqsUpTo(SortPool, MaxRows)} \cup {MalformedFrame}
    /\ dynamic_filters = build_dynamic_filters(df_all, <<>>)
    /\ df_filtered = df_all
    /\ last = "init"
    /\ sort_state_main = <<>>
    /\ running = TRUE
    /\ refresh_ms = IntVarHolding(DefaultRefreshMs)
    /\ summaries = NoSummaries
    /\ views = NoViews
    /\ after_q = {}
    /\ handles = <<>>
    /\ calls = [k \in DebounceKeys |-> NoCall]
    /\ invoked = [k \in DebounceKeys |-> NoInvocation]

NextSort == \E col \in SortHeadings : SortMainBy(col)

SpecSort == InitSort /\ [][NextSort]_vars

\* How often r occurs in rows.
TimesIn(rows, r) == Cardinality({i \in 1..Len(rows) : rows[i] = r})

\* before and after hold the same rows, each as often.
SameRows(before, after) ==
    /\ Len(before) = Len(after)
    /\ \A i \in 1..Len(before) : TimesIn(before, before[i]) = TimesIn(after, before[i])

\* The rows whose value in column by is key, in the order they stand in.
RowsKeyed(rows, by, key) == SelectSeq(rows, LAMBDA r : r[by] = key)

\* Rows with equal values in column by stand in after in the order they
\* stand in before.
TiesKeepOrder(before, after, by) ==
    \A i \in 1..Len(before) :
        RowsKeyed(after, by, before[i][by]) = RowsKeyed(before, by, before[i][by])

\* The heading whose direction the step has flipped is col.
Clicked(col) ==
    /\ col \in DOMAIN sort_state_main'
    /\ col \in DOMAIN sort_state_main => sort_state_main'[col] # sort_state_main[col]

\* C29: sort_main_by(col) only reorders the filtered view: df_filtered
\* holds the same rows after it as before, each as often, rows with equal
\* sort key keep their relative order, and df_all and the filter selections
\* are unchanged.
C29_SortOnlyReorders ==
    [][last' \in {"sort", "sort_failed"} =>
          /\ SameRows(df_filtered.rows, df_filtered'.rows)
          /\ df_filtered'.columns = df_filtered.columns
          /\ \A col \in SortHeadings :
                 (Clicked(col) /\ HasCol(df_filtered, SortColumn(col))) =>
                     TiesKeepOrder(df_filtered.rows, df_filtered'.rows, SortColumn(col))
          /\ df_all' = df_all
          /\ dynamic_filters' = dynamic_filters]_vars

\* The heading of qty has been clicked once: the view is sorted by qty in
\* descending order, in another order than df_all, and the two trades of
\* 100 stand as they stand in df_all, MSFT before NVDA.
C29_Witness ==
    /\ last = "sort"
    /\ sort_state_main = [c \in {"qty"} |-> FALSE]
    /\ df_all.rows = <<R4, R2, R5>>
    /\ df_filtered.rows = <<R5, R4, R2>>

\* Time clicked twice on a view that holds a trade twice: ascending, the
\* earlier trade first.
C29_WitnessAscending ==
    /\ last = "sort"
    /\ sort_state_main = [c \in {"Time"} |-> TRUE]
    /\ df_all.rows = <<R4, R2, R4>>
    /\ df_filtered.rows = <<R2, R4, R4>>

\* A heading clicked on a table that has no such column: nothing moved.
C29_WitnessFailed ==
    /\ last = "sort_failed"
    /\ df_filtered = MalformedFrame

----------------------------------------------------------------------------
(* C28: freeze and resume. *)

\* The step is a run of refresh_data.
RefreshTick ==
    last' \in {"refresh_ok", "refresh_malformed", "refresh_raised", "refresh_frozen"}

\* A refresh tick while frozen leaves the snapshot, the filtered view and
\* the summary rows as they are, and the app frozen.
FrozenTickKeeps ==
    (~running /\ RefreshTick) =>
        /\ last' = "refresh_frozen"
        /\ df_all' = df_all
        /\ df_filtered' = df_filtered
        /\ summaries' = summaries
        /\ ~running'

\* A debounced apply while frozen filters the frozen snapshot anew, when
\* the snapshot has the columns the filters are set on.
FrozenApplyFilters ==
    (~running /\ last' \in {"apply", "apply_failed"}) =>
        /\ df_all' = df_all
        /\ ~running'
        /\ FilteredFrame(df_all, dynamic_filters).ok =>
               df_filtered' = FilteredFrame(df_all, dynamic_filters).df

\* toggle_run flips running, so the second of two restores it; a tick while
\* running asks the provider, and df_all is what it returned.
ResumedTickFetches ==
    /\ last' = "toggle" => running' = ~running
    /\ (running /\ RefreshTick) =>
           /\ last' # "refresh_frozen"
           /\ last' # "refresh_raised" => df_all' \in AppFeed

\* C28: while frozen, a refresh tick does not call the provider and leaves
\* df_all, df_filtered and the summary rows unchanged, while debounced
\* filter edits still re-filter the frozen snapshot; a second toggle_run
\* restores running to true and the next tick fetches a new snapshot.
C28_FrozenKeepsSnapshot ==
    [][FrozenTickKeeps /\ FrozenApplyFilters /\ ResumedTickFetches]_vars

\* Frozen, the debounced apply has narrowed the view of the frozen
\* snapshot, and the summaries are still those of the whole snapshot.
C28_Witness ==
    /\ ~running
    /\ last = "apply"
    /\ df_all.rows = ExampleRows
    /\ df_filtered.rows # <<>>
    /\ Len(df_filtered.rows) < Len(df_all.rows)
    /\ summaries \in SummariesOf(df_all, NoSummaries)

\* A tick has run frozen over a narrowed view.
C28_WitnessFrozenTick ==
    /\ ~running
    /\ last = "refresh_frozen"
    /\ df_filtered.rows # <<>>
    /\ Len(df_filtered.rows) < Len(df_all.rows)

\* Running again, a tick has fetched another snapshot than the constructor's.
C28_WitnessResumed ==
    /\ running
    /\ last = "refresh_ok"
    /\ df_all = Frame(<<>>)

====
